---------------------------- MODULE Spec2Model ----------------------------
(***************************************************************************)
(* State-machine model of the zkest agent SDK automation runners           *)
(* (packages/python/zkest_sdk/agent.py: AutoVerifier, AutoApprover) on the *)
(* asyncio event loop.  asyncio is cooperative: a coroutine runs without   *)
(* interruption from one suspension point (await) to the next, so every    *)
(* action below is one such run-to-next-await step of the caller or of the *)
(* background task.                                                        *)
(*                                                                         *)
(* Texts are sequences of tokens (the Korean literals of the source are    *)
(* named by an English token); timestamps (approvedAt, rejectedAt) and the *)
(* pass-through fields agent_id, evidence_url, evidence and metadata are   *)
(* left out of the dictionaries.                                           *)
(***************************************************************************)
EXTENDS Integers, Sequences, FiniteSets, TLC

VARIABLES
    role,        \* which runner class this instance is: "verifier" | "approver"
    client,      \* the class of the object passed as `client` to __init__
    running,     \* self._running
    taskRef,     \* self._task: id of the asyncio.Task it refers to, 0 for None
    callbacks,   \* self._callbacks: key -> callback, None when the key is absent
    tasks,       \* the asyncio tasks created by start(): position and locals
    nextTask,    \* id the next asyncio.create_task will get
    callerPc,    \* position of each coroutine of the embedding program
    awaiting,    \* the task a caller suspended in stop() is awaiting (0: none)
    joined,      \* tasks t such that a stop() that awaited t has returned
    direct,      \* the verify_task / validate_result call the program has in flight
    connected,   \* VerificationStream._connected
    websocket,   \* VerificationStream._websocket: connection id, 0 for None
    eventHandlers, \* VerificationStream._event_handlers: event name -> handler list
    listenTask,  \* VerificationStream._listen_task: task id, 0 for None
    listeners,   \* the asyncio tasks running _listen_loop: position and locals
    conns,       \* the transport connections websockets.connect has returned
    streamPc,    \* position of the coroutine that owns the stream
    sending,     \* the send call in flight: its message and the connection it writes to
    rules,       \* ResultValidator._rules: the registered rules, in order
    ev           \* what the last step did: API calls, Gateway calls, decisions

\* the variables of a runner, of a direct call and of a stream
runnerVars == <<role, client, running, taskRef, callbacks, tasks, nextTask,
                callerPc, awaiting, joined>>
streamVars == <<connected, websocket, eventHandlers, listenTask, listeners,
                conns, streamPc, sending>>

\* the variables of a validator
validatorVars == <<rules>>

vars == <<runnerVars, direct, streamVars, validatorVars, ev>>

---------------------------------------------------------------------------
(* Bounds of the model *)

\* number of background tasks the embedding program may create with start()
MaxTasks == 2
\* longest list one get_pending_verifications call returns
MaxItems == 2

---------------------------------------------------------------------------
(* Program constants *)

\* score of the default verification (agent.py:124)
DefaultScore == 70
\* score of the degraded decision after a callback error (agent.py:104)
DegradedScore == 0

None == "None"

Roles == {"verifier", "approver"}

\* methods of the async client class of the repository (no update_verification)
AsyncZkestClientMethods ==
    {"submit_verification", "get_pending_verifications", "get_verification",
     "get_agent_metrics", "close"}

\* methods of a client object that implements the Backend Gateway interface
GatewayClientMethods ==
    {"get_pending_verifications", "update_verification"}

Clients == {"AsyncZkestClient", "GatewayClient"}

ClientMethods(c) ==
    IF c = "AsyncZkestClient" THEN AsyncZkestClientMethods ELSE GatewayClientMethods

\* VerificationStatus: the values of the enumeration, and the ones the fetched
\* verifications of the model carry
VerificationStatus == {"Pending", "Approved", "Rejected", "MoreInfoRequested"}
Statuses == {"Pending", "Approved"}
StatusApproved == "Approved"
StatusRejected == "Rejected"

\* skills carried by fetched verifications; keys the program registers under
Skills == {"python", "rust"}
RegisterKeys == {"python", "other"}
AllKeys == Skills \cup RegisterKeys \cup {"other"}

\* identities of the callback functions the embedding program owns
Callbacks == {"cb1", "cb2"}
CallbackScores == {40, 95}
ErrorTexts == {"boom", "timeout"}

TaskIds == 1..MaxTasks
Callers == {"owner", "second"}

\* a fetched Verification: its id is its position in the returned list
ItemId(i) == <<"v", i>>
Item(i, sk, st) == [id |-> ItemId(i), skill |-> sk, status |-> st]

RECURSIVE ListsOfLen(_)
ListsOfLen(n) ==
    IF n = 0 THEN {<<>>}
    ELSE {Append(l, Item(n, sk, st)) : l \in ListsOfLen(n - 1), sk \in Skills, st \in Statuses}

FetchResults == UNION {ListsOfLen(n) : n \in 0..MaxItems}

---------------------------------------------------------------------------
(* Decision Registry: register_callback / unregister_callback / lookup *)

\* dict.get(key, default)
DictGet(d, k, default) == IF k \in DOMAIN d THEN d[k] ELSE default

\* a lookup by the skill field alone
LookupKeySkillOnly(task) == DictGet(task, "skill", "other")

\* skill = task.get("skill", task.get("taskType", "other"))
LookupKey(task) == DictGet(task, "skill", DictGet(task, "taskType", "other"))

\* a lookup that falls back to the callback registered under "other"
ResolveWithOtherFallback(cbs, task) ==
    IF DictGet(cbs, LookupKey(task), None) # None
    THEN DictGet(cbs, LookupKey(task), None)
    ELSE DictGet(cbs, "other", None)

\* self._callbacks.get(skill)
Resolve(cbs, task) == DictGet(cbs, LookupKey(task), None)

\* a registration that keeps the callback a key already has (dict.setdefault)
RegisterKeepsFirst(cbs, key, cb) ==
    IF cbs[key] # None THEN cbs ELSE [cbs EXCEPT ![key] = cb]

\* self._callbacks[skill] = callback
RegisterCallback(cbs, key, cb) == [cbs EXCEPT ![key] = cb]

\* if skill in self._callbacks: del self._callbacks[skill]
UnregisterCallback(cbs, key) ==
    IF cbs[key] # None THEN [cbs EXCEPT ![key] = None] ELSE cbs

---------------------------------------------------------------------------
(* Decisions *)

\* VerificationResult(valid=True, score=70, feedback="자동 검증 완료")
DefaultVerification ==
    [valid |-> TRUE, score |-> DefaultScore, feedback |-> <<"AutomaticVerificationDone">>]

\* VerificationResult(valid=False, score=0, feedback=f"검증 중 오류 발생: {str(e)}")
DegradedVerification(msg) ==
    [valid |-> FALSE, score |-> DegradedScore,
     feedback |-> <<"ErrorDuringVerification:", msg>>]

\* ValidationResult(valid=True)
DefaultValidation == [valid |-> TRUE, reason |-> <<>>]

\* ValidationResult(valid=False, reason=f"검증 중 오류 발생: {str(e)}")
DegradedValidation(msg) ==
    [valid |-> FALSE, reason |-> <<"ErrorDuringVerification:", msg>>]

\* what a verification callback may return: any verdict, any score
VerificationResults(cb) ==
    {[valid |-> v, score |-> s, feedback |-> <<cb>>] : v \in BOOLEAN, s \in CallbackScores}

\* what a validation callback may return: any verdict, with or without a reason
ValidationResults(cb) ==
    {[valid |-> v, reason |-> r] : v \in BOOLEAN, r \in {<<>>, <<cb>>}}

\* the dictionary AutoVerifier.submit_verification passes to update_verification
VerifierData(res) ==
    [status |-> IF res.valid THEN StatusApproved ELSE StatusRejected,
     score |-> res.score,
     feedback |-> res.feedback]

\* the dictionary AutoApprover.approve passes to update_verification
ApproveData == [status |-> "approved"]

\* the dictionary AutoApprover.reject passes to update_verification
RejectData(reason) == [status |-> "rejected", rejectionReason |-> reason]

\* a reject that passes result.reason on as it is
ReasonAsIs(reason) == reason

\* result.reason or "검증 실패"
ReasonOrFallback(reason) == IF reason = <<>> THEN <<"ValidationFailed">> ELSE reason

\* the approver's branch: approve(id) if result.valid else reject(id, reason)
ApproverData(res) ==
    IF res.valid THEN ApproveData ELSE RejectData(ReasonOrFallback(res.reason))

\* the payload the runner of this role submits for a decision
SubmitData(res) == IF role = "verifier" THEN VerifierData(res) ELSE ApproverData(res)

DefaultDecision == IF role = "verifier" THEN DefaultVerification ELSE DefaultValidation

DegradedDecision(msg) ==
    IF role = "verifier" THEN DegradedVerification(msg) ELSE DegradedValidation(msg)

CallbackResults(cb) ==
    IF role = "verifier" THEN VerificationResults(cb) ELSE ValidationResults(cb)

\* task_data built by the run loop from a fetched verification
TaskData(item) == [id |-> item.id, skill |-> item.skill]

\* a loop without the status filter
HandlesEveryStatus(item) == TRUE

\* the approver only handles verifications whose status is APPROVED
Handles(item) == role = "verifier" \/ item.status = StatusApproved

---------------------------------------------------------------------------
(* Events: what one step did, in order *)

EvStart(c, noop) == [op |-> "start", caller |-> c, noop |-> noop]
EvStop(c, noop) == [op |-> "stop", caller |-> c, noop |-> noop]
EvStopReturn(c, t) == [op |-> "stop_return", caller |-> c, awaited |-> t]
EvRegister(key, cb) == [op |-> "register", key |-> key, cb |-> cb]
EvUnregister(key) == [op |-> "unregister", key |-> key]
EvFetch(t) == [op |-> "fetch", task |-> t, agentFilter |-> (role = "verifier")]
EvFetchFailed(t, prev) == [op |-> "fetch_failed", task |-> t, prev |-> prev]
\* `again` tells that the fetch before this one had returned items too
EvFetched(t, n, again) ==
    [op |-> "fetched", task |-> t, count |-> n, again |-> again]
EvItem(t, i, item) ==
    [op |-> "item", task |-> t, idx |-> i, skill |-> item.skill, status |-> item.status]
EvBreak(t, i) == [op |-> "break", task |-> t, idx |-> i]
EvSkip(t, i, item) == [op |-> "skip", task |-> t, idx |-> i, status |-> item.status]
EvInvoke(t, i, cb) == [op |-> "invoke", task |-> t, idx |-> i, cb |-> cb]
EvReturned(t, i, cb, res) ==
    [op |-> "callback_returned", task |-> t, idx |-> i, cb |-> cb, res |-> res]
EvRaised(t, i, cb, msg) ==
    [op |-> "callback_raised", task |-> t, idx |-> i, cb |-> cb, msg |-> msg]
EvDecision(t, i, kind, res) ==
    [op |-> "decision", task |-> t, idx |-> i, kind |-> kind, res |-> res]
EvSubmit(t, i, id, data, sent) ==
    [op |-> "submit", task |-> t, idx |-> i, id |-> id, data |-> data, sent |-> sent]
EvSubmitOk(t, i, n) == [op |-> "submit_ok", task |-> t, idx |-> i, of |-> n]
EvSubmitFailed(t, i, n, why) ==
    [op |-> "submit_failed", task |-> t, idx |-> i, of |-> n, why |-> why]
EvSleep(t) == [op |-> "sleep", task |-> t]
EvExit(t, why, at) == [op |-> "exit", task |-> t, why |-> why, at |-> at]

---------------------------------------------------------------------------
(* The background task: AutoVerifier._run_loop / AutoApprover._run_loop *)

NoData == [none |-> TRUE]

NoTask ==
    [pc |-> "none", items |-> <<>>, idx |-> 0, cb |-> None, data |-> NoData,
     mustCancel |-> FALSE, ticked |-> FALSE, sleeps |-> 0, lastFetch |-> None]

Step(rec, evs) == [t |-> rec, e |-> evs]

\* the coroutine leaves _run_loop: by return, or by an exception
\* `except Exception` does not catch (asyncio.CancelledError)
TaskDone(tk, rec, why, evs) ==
    Step([NoTask EXCEPT !.pc = "done", !.ticked = rec.ticked],
         Append(evs, EvExit(tk, why, rec.pc)))

\* await asyncio.sleep(self.poll_interval), the last statement of the while body
GoSleep(tk, rec, evs) ==
    Step([rec EXCEPT !.pc = "sleep", !.items = <<>>, !.idx = 0, !.cb = None,
                     !.data = NoData, !.sleeps = @ + 1],
         Append(evs, EvSleep(tk)))

\* verifications = await self.client.get_pending_verifications(...)
CallFetch(tk, rec, evs) ==
    Step([rec EXCEPT !.pc = "fetch", !.ticked = TRUE, !.sleeps = 0],
         Append(evs, EvFetch(tk)))

\* while self._running:
WhileCheck(tk, rec, evs) ==
    IF running THEN CallFetch(tk, rec, evs) ELSE TaskDone(tk, rec, "returned", evs)

\* a loop whose try statement encloses the while: a fetch error ends the task
FetchFailureEndsLoop(tk, rec, evs) ==
    TaskDone(tk, rec, "error", Append(evs, EvFetchFailed(tk, rec.lastFetch)))

\* a handler that retries at once (`continue`) instead of falling to the sleep
FetchFailureRetriesAtOnce(tk, rec, evs) ==
    CallFetch(tk, [rec EXCEPT !.lastFetch = "failed"],
              Append(evs, EvFetchFailed(tk, rec.lastFetch)))

\* except Exception as e: logger.error("폴링 중 오류") -- then the sleep
AfterFetchFailure(tk, rec, evs) ==
    GoSleep(tk, [rec EXCEPT !.lastFetch = "failed"],
            Append(evs, EvFetchFailed(tk, rec.lastFetch)))

RECURSIVE ForLoop(_, _, _, _)
RECURSIVE SubmitPhase(_, _, _, _, _)

\* a loop with the outer try statement only: a failed submit ends the tick
SubmitFailureEndsTick(tk, rec, i, why, evs) ==
    GoSleep(tk, rec, Append(evs, EvSubmitFailed(tk, i, Len(rec.items), why)))

\* a handler that makes the call again when the Gateway refused it
SubmitFailureRetries(tk, rec, i, why, evs) ==
    IF why = "APIError"
    THEN Step([rec EXCEPT !.pc = "submit", !.idx = i],
              Append(Append(evs, EvSubmitFailed(tk, i, Len(rec.items), why)),
                     EvSubmit(tk, i, rec.items[i].id, rec.data, TRUE)))
    ELSE ForLoop(tk, rec, i + 1, Append(evs, EvSubmitFailed(tk, i, Len(rec.items), why)))

\* the per-item `except Exception`: log, then the next iteration of the for loop
AfterSubmitFailure(tk, rec, i, why, evs) ==
    ForLoop(tk, rec, i + 1, Append(evs, EvSubmitFailed(tk, i, Len(rec.items), why)))

\* logger.info("검증 완료"), then the next iteration of the for loop
AfterSubmitOk(tk, rec, i, evs) ==
    ForLoop(tk, rec, i + 1, Append(evs, EvSubmitOk(tk, i, Len(rec.items))))

\* a loop that starts the submit without awaiting it and takes the next item
SubmitNotAwaited(tk, rec, i, res, evs) ==
    ForLoop(tk, rec, i + 1,
            Append(evs, EvSubmit(tk, i, rec.items[i].id, SubmitData(res), TRUE)))

\* await self.submit_verification(id, result) / self.approve(id) / self.reject(id, r):
\* builds the payload and calls self.client.update_verification(id, data); the
\* attribute lookup raises AttributeError when the client has no such method
SubmitPhase(tk, rec, i, res, evs) ==
    LET data == SubmitData(res)
        id == rec.items[i].id
    IN  IF "update_verification" \in ClientMethods(client)
        THEN Step([rec EXCEPT !.pc = "submit", !.idx = i, !.cb = None, !.data = data],
                  Append(evs, EvSubmit(tk, i, id, data, TRUE)))
        ELSE AfterSubmitFailure(tk, rec, i, "AttributeError",
                                Append(evs, EvSubmit(tk, i, id, data, FALSE)))

\* verify_task / validate_result without a registered callback
ApplyDefault(tk, rec, i, evs) ==
    SubmitPhase(tk, rec, i, DefaultDecision,
                Append(evs, EvDecision(tk, i, "default", DefaultDecision)))

\* verify_task / validate_result: the callback returned res
AfterCallbackResult(tk, rec, i, res, evs) ==
    SubmitPhase(tk, rec, i, res, Append(evs, EvDecision(tk, i, "callback", res)))

\* a verify_task without the try statement: the error reaches the per-item
\* handler of the run loop and the item is given up
CallbackErrorSkipsItem(tk, rec, i, msg, evs) ==
    ForLoop(tk, rec, i + 1, Append(evs, EvSubmitFailed(tk, i, Len(rec.items), msg)))

\* verify_task / validate_result: `except Exception as e` around the callback
AfterCallbackError(tk, rec, i, msg, evs) ==
    SubmitPhase(tk, rec, i, DegradedDecision(msg),
                Append(evs, EvDecision(tk, i, "degraded", DegradedDecision(msg))))

\* a for loop without `if not self._running: break`
ForLoopIgnoresStop(tk, rec, i, evs) ==
    IF i > Len(rec.items) THEN GoSleep(tk, rec, evs)
    ELSE IF ~Handles(rec.items[i]) THEN ForLoop(tk, rec, i + 1,
                                                  Append(evs, EvSkip(tk, i, rec.items[i])))
    ELSE LET cb == Resolve(callbacks, TaskData(rec.items[i]))
             evs1 == Append(evs, EvItem(tk, i, rec.items[i]))
         IN  IF cb # None
             THEN Step([rec EXCEPT !.pc = "callback", !.idx = i, !.cb = cb, !.data = NoData],
                       Append(evs1, EvInvoke(tk, i, cb)))
             ELSE ApplyDefault(tk, rec, i, evs1)

\* for verification in verifications: from item i to the next suspension point
ForLoop(tk, rec, i, evs) ==
    IF i > Len(rec.items) THEN GoSleep(tk, rec, evs)
    ELSE IF ~running THEN GoSleep(tk, rec, Append(evs, EvBreak(tk, i)))
    ELSE IF ~Handles(rec.items[i]) THEN ForLoop(tk, rec, i + 1,
                                                  Append(evs, EvSkip(tk, i, rec.items[i])))
    ELSE LET cb == Resolve(callbacks, TaskData(rec.items[i]))
             evs1 == Append(evs, EvItem(tk, i, rec.items[i]))
         IN  IF cb # None
             THEN Step([rec EXCEPT !.pc = "callback", !.idx = i, !.cb = cb, !.data = NoData],
                       Append(evs1, EvInvoke(tk, i, cb)))
             ELSE ApplyDefault(tk, rec, i, evs1)

---------------------------------------------------------------------------
(* Steps of the background task, one per suspension point *)

Apply(tk, step) ==
    /\ tasks' = [tasks EXCEPT ![tk] = step.t]
    /\ ev' = step.e
    /\ UNCHANGED <<role, client, running, taskRef, callbacks, nextTask,
                   callerPc, awaiting, joined>>
    /\ UNCHANGED <<direct, streamVars, validatorVars>>

\* Task.cancel() was called: the task's next step throws CancelledError into
\* the coroutine at its current await; nothing in _run_loop catches it
Cancelled(tk) == Apply(tk, TaskDone(tk, tasks[tk], "cancelled", <<>>))

\* first step of the task created by asyncio.create_task(self._run_loop())
TaskStart(tk) ==
    /\ tasks[tk].pc = "new"
    /\ IF tasks[tk].mustCancel THEN Cancelled(tk)
       ELSE Apply(tk, WhileCheck(tk, tasks[tk], <<>>))

\* what the last fetch of the task gave: "failed", "empty" or "items"
FetchKind(l) == IF Len(l) = 0 THEN "empty" ELSE "items"

\* get_pending_verifications completes: it raised, or it returned a list
FetchReturn(tk) ==
    /\ tasks[tk].pc = "fetch"
    /\ IF tasks[tk].mustCancel THEN Cancelled(tk)
       ELSE \/ Apply(tk, AfterFetchFailure(tk, tasks[tk], <<>>))
            \/ \E l \in FetchResults :
                  Apply(tk, ForLoop(tk, [tasks[tk] EXCEPT !.items = l,
                                                          !.lastFetch = FetchKind(l)], 1,
                                    <<EvFetched(tk, Len(l), tasks[tk].lastFetch = "items")>>))

\* a verify_task that looks the callback up again when the awaited call is over
CallbackOfRegistryAtReturn(tk, rec) ==
    LET cb == Resolve(callbacks, TaskData(rec.items[rec.idx]))
    IN  IF cb = None THEN Apply(tk, ApplyDefault(tk, rec, rec.idx, <<>>))
        ELSE \E res \in CallbackResults(cb) :
                Apply(tk, AfterCallbackResult(tk, rec, rec.idx, res,
                                              <<EvReturned(tk, rec.idx, cb, res)>>))

\* the awaited callback completes: it returned a result, raised an Exception,
\* or raised asyncio.CancelledError (a BaseException) itself
CallbackOutcome(tk, rec) ==
    \/ \E res \in CallbackResults(rec.cb) :
          Apply(tk, AfterCallbackResult(tk, rec, rec.idx, res,
                                        <<EvReturned(tk, rec.idx, rec.cb, res)>>))
    \/ \E msg \in ErrorTexts :
          Apply(tk, AfterCallbackError(tk, rec, rec.idx, msg,
                                       <<EvRaised(tk, rec.idx, rec.cb, msg)>>))
    \/ Apply(tk, TaskDone(tk, rec, "callback_cancelled", <<>>))

\* resumption of `await callback(task)`; a cancellation is thrown into the
\* callback, which lets it propagate or catches it and completes anyway
CallbackReturn(tk) ==
    /\ tasks[tk].pc = "callback"
    /\ IF tasks[tk].mustCancel
       THEN \/ Cancelled(tk)
            \/ CallbackOutcome(tk, [tasks[tk] EXCEPT !.mustCancel = FALSE])
       ELSE CallbackOutcome(tk, tasks[tk])

\* update_verification completes: it returned, or it raised (APIError, timeout)
SubmitReturn(tk) ==
    /\ tasks[tk].pc = "submit"
    /\ IF tasks[tk].mustCancel THEN Cancelled(tk)
       ELSE \/ Apply(tk, AfterSubmitOk(tk, tasks[tk], tasks[tk].idx, <<>>))
            \/ Apply(tk, AfterSubmitFailure(tk, tasks[tk], tasks[tk].idx, "APIError", <<>>))

\* asyncio.sleep(poll_interval) completes; back to the while condition
SleepReturn(tk) ==
    /\ tasks[tk].pc = "sleep"
    /\ IF tasks[tk].mustCancel THEN Cancelled(tk)
       ELSE Apply(tk, WhileCheck(tk, tasks[tk], <<>>))

---------------------------------------------------------------------------
(* Calls of the embedding program *)

\* Task.cancel(): no effect on a task that is done
CancelTask(ts, tk) ==
    IF ts[tk].pc = "done" THEN ts ELSE [ts EXCEPT ![tk].mustCancel = TRUE]

\* a call that skips the wait: cancel() only
AwaitNever(tk) == FALSE

\* `await self._task` suspends the caller unless the task is already done
AwaitSuspends(tk) == tasks[tk].pc # "done"

\* start() on an idle runner: set the flag and create the task
StartIdle(c) ==
    /\ nextTask <= MaxTasks
    /\ running' = TRUE
    /\ taskRef' = nextTask
    /\ tasks' = [tasks EXCEPT ![nextTask] = [NoTask EXCEPT !.pc = "new"]]
    /\ nextTask' = nextTask + 1
    /\ ev' = <<EvStart(c, FALSE)>>
    /\ UNCHANGED <<role, client, callbacks, callerPc, awaiting, joined>>
    /\ UNCHANGED <<direct, streamVars, validatorVars>>

\* a start() without the `if self._running` guard
StartAgain(c) == StartIdle(c)

\* start() on a running runner: `if self._running: (log) return`
StartRunning(c) ==
    /\ ev' = <<EvStart(c, TRUE)>>
    /\ UNCHANGED <<role, client, running, taskRef, callbacks, tasks, nextTask,
                   callerPc, awaiting, joined>>
    /\ UNCHANGED <<direct, streamVars, validatorVars>>

Start(c) ==
    /\ callerPc[c] = "idle"
    /\ IF running THEN StartRunning(c) ELSE StartIdle(c)

\* a stop() that raises to its caller when the runner is not running
StopIdleRaises(c) ==
    /\ callerPc' = [callerPc EXCEPT ![c] = "raised"]
    /\ ev' = <<EvStop(c, TRUE)>>
    /\ UNCHANGED <<role, client, running, taskRef, callbacks, tasks, nextTask,
                   awaiting, joined>>
    /\ UNCHANGED <<direct, streamVars, validatorVars>>

\* stop() on a runner that is not running: `if not self._running: return`
StopIdle(c) ==
    /\ ev' = <<EvStop(c, TRUE)>>
    /\ UNCHANGED <<role, client, running, taskRef, callbacks, tasks, nextTask,
                   callerPc, awaiting, joined>>
    /\ UNCHANGED <<direct, streamVars, validatorVars>>

\* stop() on a running runner, up to its await: clear the flag, cancel the
\* task and await it
StopRunning(c) ==
    /\ running' = FALSE
    /\ IF taskRef = 0
       THEN /\ ev' = <<EvStop(c, FALSE)>>
            /\ UNCHANGED <<tasks, callerPc, awaiting, joined>>
       ELSE /\ tasks' = CancelTask(tasks, taskRef)
            /\ IF AwaitSuspends(taskRef)
               THEN /\ callerPc' = [callerPc EXCEPT ![c] = "inStop"]
                    /\ awaiting' = [awaiting EXCEPT ![c] = taskRef]
                    /\ ev' = <<EvStop(c, FALSE)>>
                    /\ UNCHANGED joined
               ELSE /\ joined' = joined \cup {taskRef}
                    /\ ev' = <<EvStop(c, FALSE), EvStopReturn(c, taskRef)>>
                    /\ UNCHANGED <<callerPc, awaiting>>
    /\ UNCHANGED <<role, client, taskRef, callbacks, nextTask>>
    /\ UNCHANGED <<direct, streamVars, validatorVars>>

Stop(c) ==
    /\ callerPc[c] = "idle"
    /\ IF running THEN StopRunning(c) ELSE StopIdle(c)

\* stop() after its await: the awaited task is done; CancelledError is swallowed
StopReturn(c) ==
    /\ callerPc[c] = "inStop"
    /\ tasks[awaiting[c]].pc = "done"
    /\ callerPc' = [callerPc EXCEPT ![c] = "idle"]
    /\ awaiting' = [awaiting EXCEPT ![c] = 0]
    /\ joined' = joined \cup {awaiting[c]}
    /\ ev' = <<EvStopReturn(c, awaiting[c])>>
    /\ UNCHANGED <<role, client, running, taskRef, callbacks, tasks, nextTask>>
    /\ UNCHANGED <<direct, streamVars, validatorVars>>

\* register_callback(skill, callback)
Register(key, cb) ==
    /\ callbacks' = RegisterCallback(callbacks, key, cb)
    /\ ev' = <<EvRegister(key, cb)>>
    /\ UNCHANGED <<role, client, running, taskRef, tasks, nextTask,
                   callerPc, awaiting, joined>>
    /\ UNCHANGED <<direct, streamVars, validatorVars>>

\* unregister_callback(skill)
Unregister(key) ==
    /\ callbacks' = UnregisterCallback(callbacks, key)
    /\ ev' = <<EvUnregister(key)>>
    /\ UNCHANGED <<role, client, running, taskRef, tasks, nextTask,
                   callerPc, awaiting, joined>>
    /\ UNCHANGED <<direct, streamVars, validatorVars>>

---------------------------------------------------------------------------
(* Direct calls of verify_task / validate_result by the embedding program *)

\* values of the taskType field of a task dictionary (TaskType)
TaskTypes == {"code", "other"}

\* the task dictionaries of the direct calls: skill and taskType are optional
DirectTasks ==
    {[id |-> "d1"]}
        \cup {[id |-> "d1", skill |-> sk] : sk \in Skills}
        \cup {[id |-> "d1", taskType |-> tt] : tt \in TaskTypes}
        \cup {[id |-> "d1", skill |-> sk, taskType |-> tt] : sk \in Skills, tt \in TaskTypes}

NoCall == [pc |-> "none"]

EvVerifyTask(task) == [op |-> "verify_task", arg |-> task]
EvDirectInvoke(cb, task) == [op |-> "direct_invoke", cb |-> cb, arg |-> task]
EvDirectResult(kind, res) == [op |-> "direct_result", kind |-> kind, res |-> res]
EvDirectRaised(why) == [op |-> "direct_raised", why |-> why]

\* verify_task(task) / validate_result(task), up to its await: look the
\* callback up; without one, return the default decision
VerifyTask(task) ==
    /\ direct.pc = "none"
    /\ LET cb == Resolve(callbacks, task)
       IN  IF cb # None
           THEN /\ direct' = [pc |-> "callback", cb |-> cb, arg |-> task]
                /\ ev' = <<EvVerifyTask(task), EvDirectInvoke(cb, task)>>
           ELSE /\ direct' = NoCall
                /\ ev' = <<EvVerifyTask(task), EvDirectResult("default", DefaultDecision)>>
    /\ UNCHANGED <<runnerVars, streamVars, validatorVars>>

\* the awaited callback completes: the call returns its result, returns the
\* degraded decision for an Exception, or lets a CancelledError through
VerifyTaskReturn ==
    /\ direct.pc = "callback"
    /\ direct' = NoCall
    /\ \/ \E res \in CallbackResults(direct.cb) : ev' = <<EvDirectResult("callback", res)>>
       \/ \E msg \in ErrorTexts : ev' = <<EvDirectResult("degraded", DegradedDecision(msg))>>
       \/ ev' = <<EvDirectRaised("CancelledError")>>
    /\ UNCHANGED <<runnerVars, streamVars, validatorVars>>

---------------------------------------------------------------------------
(* The event stream: VerificationStream (websocket.py) *)

\* number of transport connections the program may open with connect()
MaxConns == 2
\* number of handler registrations the subscription map may hold at a time
MaxHandlers == 2

ConnIds == 1..MaxConns

\* event names the program registers handlers under, and the handlers it owns
EventNames == {"tier_updated", "escrow_created"}
StreamHandlers == {"h1", "h2"}

\* self._event_handlers = {}: a dictionary, its keys are the DOMAIN
NoHandlers == [e \in {} |-> <<>>]

\* JSON null / Python None as the value of a field
JsonNull == [null |-> TRUE]

\* the decoded inbound frames: a JSON object whose event, type and data fields
\* are optional; `seq` stands for the fields the dispatcher does not look at
FrameEvents == {"tier_updated", ""}
FrameTypes == {"escrow_created"}
FrameDatas == {JsonNull, [tier |-> "Basic"]}
Frames ==
    {[seq |-> 1]}
        \cup {[seq |-> 1, event |-> e] : e \in FrameEvents}
        \cup {[seq |-> 1, type |-> t] : t \in FrameTypes}
        \cup {[seq |-> 1, data |-> d] : d \in FrameDatas}
        \cup {[seq |-> 1, event |-> e, type |-> t] : e \in FrameEvents, t \in FrameTypes}
        \cup {[seq |-> 1, event |-> e, data |-> d] : e \in FrameEvents, d \in FrameDatas}
        \cup {[seq |-> 1, type |-> t, data |-> d] : t \in FrameTypes, d \in FrameDatas}
        \cup {[seq |-> 1, event |-> e, type |-> t, data |-> d] :
                 e \in FrameEvents, t \in FrameTypes, d \in FrameDatas}

\* the messages recv() returns: the text of a JSON object, the text of a JSON
\* value that is not an object, and a text that is not JSON
Messages ==
    {[kind |-> "object", value |-> f] : f \in Frames}
        \cup {[kind |-> "array"], [kind |-> "garbage"]}

\* json.loads(message): raises JSONDecodeError on a text that is not JSON
JsonDecodes(msg) == msg.kind # "garbage"

\* Python truth value of a string or None
Truthy(v) == v \notin {None, ""}

\* a or b
PyOr(a, b) == IF Truthy(a) THEN a ELSE b

\* an event name taken from the event field whenever the frame has that key
EventOfKeyPresence(data) == DictGet(data, "event", DictGet(data, "type", None))

\* event = data.get("event") or data.get("type")
EventOf(data) == PyOr(DictGet(data, "event", None), DictGet(data, "type", None))

\* payload = data.get("data", data)
PayloadOf(data) == DictGet(data, "data", data)

\* if event and event in self._event_handlers
HasHandlers(hs, event) == Truthy(event) /\ event \in DOMAIN hs

\* number of registrations in the subscription map
RECURSIVE TotalHandlers(_, _)
TotalHandlers(hs, names) ==
    IF names = {} THEN 0
    ELSE LET e == CHOOSE x \in names : TRUE
         IN  Len(hs[e]) + TotalHandlers(hs, names \ {e})

NoListener ==
    [pc |-> "none", mustCancel |-> FALSE, conn |-> 0, event |-> None,
     payload |-> JsonNull, hl |-> <<>>, hidx |-> 0, hlLive |-> FALSE]

\* what one step of the stream did
EvConnect(how) == [op |-> "connect", how |-> how]
EvConnected(c) == [op |-> "connected", conn |-> c, created |-> c]
EvConnectFailed(why) == [op |-> "connect_failed", why |-> why]
EvDisconnect(noop) == [op |-> "disconnect", noop |-> noop]
EvClose(c) == [op |-> "close", conn |-> c]
EvDisconnected(l) == [op |-> "disconnected", awaited |-> l]
EvOn(e, h) == [op |-> "on", event |-> e, handler |-> h]
EvOff(e, h) == [op |-> "off", event |-> e, handler |-> h]
EvRecv(l, c) == [op |-> "recv", loop |-> l, conn |-> c]
EvMessage(l, msg) == [op |-> "message", loop |-> l, msg |-> msg]
EvDropped(l, why) == [op |-> "dropped", loop |-> l, why |-> why]
EvRecvError(l, why) == [op |-> "recv_error", loop |-> l, why |-> why]
EvHandler(l, e, i, h, payload) ==
    [op |-> "handler", loop |-> l, event |-> e, pos |-> i, handler |-> h,
     payload |-> payload]
EvHandlerDone(l, i, h, how) ==
    [op |-> "handler_done", loop |-> l, pos |-> i, handler |-> h, how |-> how]
EvLoopExit(l, why, at) == [op |-> "loop_exit", loop |-> l, why |-> why, at |-> at]

---------------------------------------------------------------------------
(* The receive loop task: VerificationStream._listen_loop / _handle_message *)

\* the coroutine leaves _listen_loop: by break, by the while condition, or by
\* a CancelledError, which `except Exception` does not catch
LoopDone(l, rec, why, evs) ==
    Step([NoListener EXCEPT !.pc = "done"], Append(evs, EvLoopExit(l, why, rec.pc)))

\* message = await self._websocket.recv(); on None the attribute lookup raises,
\* `except Exception` logs it and the loop comes back here without suspending
CallRecv(l, rec, evs) ==
    IF websocket = 0
    THEN Step([NoListener EXCEPT !.pc = "spinning"], Append(evs, EvRecvError(l, "AttributeError")))
    ELSE Step([NoListener EXCEPT !.pc = "recv", !.conn = websocket,
                                 !.mustCancel = rec.mustCancel],
              Append(evs, EvRecv(l, websocket)))

\* while self._connected:
ListenWhile(l, rec, evs) ==
    IF connected THEN CallRecv(l, rec, evs) ELSE LoopDone(l, rec, "returned", evs)

\* a dispatch that starts the handler without awaiting it and goes back to the
\* while condition
HandlersNotAwaited(l, rec, i, evs) ==
    IF i > Len(rec.hl) THEN ListenWhile(l, rec, evs)
    ELSE ListenWhile(l, rec, Append(evs, EvHandler(l, rec.event, i, rec.hl[i], rec.payload)))

\* for handler in self._event_handlers[event]: from position i to the next await
ForHandlers(l, rec, i, evs) ==
    IF i > Len(rec.hl) THEN ListenWhile(l, rec, evs)
    ELSE Step([rec EXCEPT !.pc = "handler", !.hidx = i],
              Append(evs, EvHandler(l, rec.event, i, rec.hl[i], rec.payload)))

\* a dispatch with one try statement around the whole for loop
HandlerErrorEndsDispatch(l, rec, evs) ==
    ListenWhile(l, rec, Append(evs, EvHandlerDone(l, rec.hidx, rec.hl[rec.hidx], "raised")))

\* except Exception as e: logger.error(...) -- then the next handler
AfterHandlerError(l, rec, evs) ==
    ForHandlers(l, rec, rec.hidx + 1,
                Append(evs, EvHandlerDone(l, rec.hidx, rec.hl[rec.hidx], "raised")))

\* the handler returned: the next handler
AfterHandlerReturn(l, rec, evs) ==
    ForHandlers(l, rec, rec.hidx + 1,
                Append(evs, EvHandlerDone(l, rec.hidx, rec.hl[rec.hidx], "returned")))

\* _handle_message(data) for a decoded JSON object
HandleMessage(l, rec, data, evs) ==
    IF HasHandlers(eventHandlers, EventOf(data))
    THEN ForHandlers(l, [rec EXCEPT !.event = EventOf(data), !.payload = PayloadOf(data),
                                    !.hl = eventHandlers[EventOf(data)], !.hlLive = TRUE],
                     1, evs)
    ELSE ListenWhile(l, rec, Append(evs, EvDropped(l, "no_handler")))

\* a loop whose decode error is not caught inside the while
DecodeErrorEndsLoop(l, rec, evs) ==
    LoopDone(l, rec, "error", Append(evs, EvDropped(l, "JSONDecodeError")))

\* except json.JSONDecodeError as e: logger.error(...) -- then the while again
AfterDecodeError(l, rec, evs) ==
    ListenWhile(l, rec, Append(evs, EvDropped(l, "JSONDecodeError")))

\* except Exception as e: logger.error(...) -- then the while again
AfterOtherError(l, rec, why, evs) ==
    ListenWhile(l, rec, Append(evs, EvRecvError(l, why)))

\* recv() returned a message: json.loads, then _handle_message; data.get on a
\* JSON value that is not an object raises AttributeError
OnMessage(l, rec, msg) ==
    IF ~JsonDecodes(msg) THEN AfterDecodeError(l, rec, <<EvMessage(l, msg)>>)
    ELSE IF msg.kind # "object" THEN AfterOtherError(l, rec, "AttributeError", <<EvMessage(l, msg)>>)
    ELSE HandleMessage(l, rec, msg.value, <<EvMessage(l, msg)>>)

\* except ConnectionClosed: logger.warning(...); break
AfterConnectionClosed(l, rec, evs) == LoopDone(l, rec, "closed", evs)

ApplyListener(l, step) ==
    /\ listeners' = [listeners EXCEPT ![l] = step.t]
    /\ ev' = step.e
    /\ UNCHANGED <<runnerVars, validatorVars, direct, sending, connected, websocket, eventHandlers,
                   listenTask, streamPc>>

\* Task.cancel() was called on the loop task: its next step throws
\* CancelledError at its current await
ListenerCancelled(l) ==
    /\ ApplyListener(l, LoopDone(l, listeners[l], "cancelled", <<>>))
    /\ UNCHANGED conns

\* first step of the task created by asyncio.create_task(self._listen_loop())
ListenStart(l) ==
    /\ listeners[l].pc = "new"
    /\ IF listeners[l].mustCancel THEN ListenerCancelled(l)
       ELSE ApplyListener(l, ListenWhile(l, listeners[l], <<>>)) /\ UNCHANGED conns

\* recv() completes: a message, the closed-connection signal (the connection
\* was closed before, or the remote side closes it now), or another error
RecvReturn(l) ==
    /\ listeners[l].pc = "recv"
    /\ LET rec == listeners[l]
       IN  IF rec.mustCancel THEN ListenerCancelled(l)
           ELSE IF conns[rec.conn] # "open"
           THEN ApplyListener(l, AfterConnectionClosed(l, rec, <<>>)) /\ UNCHANGED conns
           ELSE \/ \E msg \in Messages :
                      ApplyListener(l, OnMessage(l, rec, msg)) /\ UNCHANGED conns
                \/ /\ ApplyListener(l, AfterConnectionClosed(l, rec, <<>>))
                   /\ conns' = [conns EXCEPT ![rec.conn] = "remote_closed"]
                \/ ApplyListener(l, AfterOtherError(l, rec, "Exception", <<>>))
                      /\ UNCHANGED conns

\* the awaited handler completes: it returned, raised an Exception, or raised
\* asyncio.CancelledError itself
HandlerOutcome(l, rec) ==
    \/ ApplyListener(l, AfterHandlerReturn(l, rec, <<>>))
    \/ ApplyListener(l, AfterHandlerError(l, rec, <<>>))
    \/ ApplyListener(l, LoopDone(l, rec, "handler_cancelled", <<>>))

\* resumption of `await handler(payload)`; a cancellation is thrown into the
\* handler, which lets it propagate or catches it and completes anyway
HandlerReturn(l) ==
    /\ listeners[l].pc = "handler"
    /\ UNCHANGED conns
    /\ IF listeners[l].mustCancel
       THEN \/ ListenerCancelled(l)
            \/ HandlerOutcome(l, [listeners[l] EXCEPT !.mustCancel = FALSE])
       ELSE HandlerOutcome(l, listeners[l])

---------------------------------------------------------------------------
(* Calls of the program that owns the stream *)

\* the id the next connection (and its loop task) gets
NextConn == 1 + Cardinality({c \in ConnIds : conns[c] # "none"})

\* connect() on a connected stream: logger.warning(...); return
ConnectConnected ==
    /\ ev' = <<EvConnect("already")>>
    /\ UNCHANGED <<runnerVars, validatorVars, direct, streamVars>>

\* connect() up to its await: self._websocket = await websockets.connect(url)
Connect ==
    /\ streamPc = "idle"
    /\ IF connected THEN ConnectConnected
       ELSE /\ NextConn <= MaxConns
            /\ streamPc' = "inConnect"
            /\ ev' = <<EvConnect("handshake")>>
            /\ UNCHANGED <<runnerVars, validatorVars, direct, sending, connected, websocket, eventHandlers,
                           listenTask, listeners, conns>>

\* a connect() that sets the flag before the handshake and leaves it set when
\* the handshake fails
ConnectReturnFlagFirst ==
    /\ streamPc = "inConnect"
    /\ streamPc' = "idle"
    /\ connected' = TRUE
    /\ \/ /\ websocket' = NextConn
          /\ conns' = [conns EXCEPT ![NextConn] = "open"]
          /\ listenTask' = NextConn
          /\ listeners' = [listeners EXCEPT ![NextConn] = [NoListener EXCEPT !.pc = "new"]]
          /\ ev' = <<EvConnected(NextConn)>>
       \/ /\ ev' = <<EvConnectFailed("WebSocketError")>>
          /\ UNCHANGED <<websocket, conns, listenTask, listeners>>
    /\ UNCHANGED <<runnerVars, validatorVars, direct, sending, eventHandlers>>

\* the handshake completes: the connection is stored, the flag set and the
\* loop task created; or it failed and connect() raises WebSocketError
ConnectReturn ==
    /\ streamPc = "inConnect"
    /\ streamPc' = "idle"
    /\ \/ /\ websocket' = NextConn
          /\ connected' = TRUE
          /\ conns' = [conns EXCEPT ![NextConn] = "open"]
          /\ listenTask' = NextConn
          /\ listeners' = [listeners EXCEPT ![NextConn] = [NoListener EXCEPT !.pc = "new"]]
          /\ ev' = <<EvConnected(NextConn)>>
       \/ /\ ev' = <<EvConnectFailed("WebSocketError")>>
          /\ UNCHANGED <<connected, websocket, conns, listenTask, listeners>>
    /\ UNCHANGED <<runnerVars, validatorVars, direct, sending, eventHandlers>>

\* self._listen_task.cancel(): no effect on a task that is done
CancelListener(ls, l) ==
    IF ls[l].pc = "done" THEN ls ELSE [ls EXCEPT ![l].mustCancel = TRUE]

\* a disconnect() that cancels the loop task without awaiting it
ListenerAwaitNever(l) == FALSE

\* `await self._listen_task` suspends the caller unless the task is done
ListenerAwaitSuspends(l) == listeners[l].pc # "done"

\* if self._websocket: await self._websocket.close()
CloseWebsocket(evs) ==
    IF websocket # 0
    THEN /\ conns' = [conns EXCEPT ![websocket] = "closed"]
         /\ streamPc' = "inClose"
         /\ ev' = Append(evs, EvClose(websocket))
    ELSE /\ streamPc' = "idle"
         /\ ev' = Append(evs, EvDisconnected(listenTask))
         /\ UNCHANGED conns

\* disconnect() on a stream that is not connected: return
DisconnectIdle ==
    /\ ev' = <<EvDisconnect(TRUE)>>
    /\ UNCHANGED <<runnerVars, validatorVars, direct, streamVars>>

\* disconnect() on a connected stream, up to its first await: clear the flag,
\* cancel the loop task and await it
DisconnectConnected ==
    /\ connected' = FALSE
    /\ IF listenTask # 0
       THEN /\ listeners' = CancelListener(listeners, listenTask)
            /\ IF ListenerAwaitSuspends(listenTask)
               THEN /\ streamPc' = "inDisconnect"
                    /\ ev' = <<EvDisconnect(FALSE)>>
                    /\ UNCHANGED conns
               ELSE CloseWebsocket(<<EvDisconnect(FALSE)>>)
       ELSE /\ CloseWebsocket(<<EvDisconnect(FALSE)>>)
            /\ UNCHANGED listeners
    /\ UNCHANGED <<runnerVars, validatorVars, direct, sending, websocket, eventHandlers, listenTask>>

Disconnect ==
    /\ streamPc = "idle"
    /\ IF connected THEN DisconnectConnected ELSE DisconnectIdle

\* disconnect() after `await self._listen_task`: the task is done
DisconnectAwaitReturn ==
    /\ streamPc = "inDisconnect"
    /\ listeners[listenTask].pc = "done"
    /\ CloseWebsocket(<<>>)
    /\ UNCHANGED <<runnerVars, validatorVars, direct, sending, connected, websocket, eventHandlers,
                   listenTask, listeners>>

\* disconnect() after `await self._websocket.close()`: self._websocket = None
CloseReturn ==
    /\ streamPc = "inClose"
    /\ websocket' = 0
    /\ streamPc' = "idle"
    /\ ev' = <<EvDisconnected(listenTask)>>
    /\ UNCHANGED <<runnerVars, validatorVars, direct, sending, connected, eventHandlers, listenTask,
                   listeners, conns>>

\* self._event_handlers[event].append(handler), creating the list if needed
AppendHandler(hs, e, h) ==
    [x \in DOMAIN hs \cup {e} |->
        IF x = e THEN (IF e \in DOMAIN hs THEN Append(hs[e], h) ELSE <<h>>) ELSE hs[x]]

\* the handler objects of a program that also registers bound methods: every
\* evaluation of obj.method gives a new object, "h1b" is a second one of the
\* method "h1" was taken from
BoundHandlers == StreamHandlers \cup {"h1b"}
MethodOf == [h1 |-> "m1", h1b |-> "m1", h2 |-> "m2"]

\* a comparison of handlers by object identity
HandlerIs(a, b) == a = b

\* h == handler: the same object, or bound methods of one method and object
HandlerEq(a, b) == MethodOf[a] = MethodOf[b]

\* [h for h in list if h != handler]
RECURSIVE Without(_, _)
Without(list, h) ==
    IF list = <<>> THEN <<>>
    ELSE IF HandlerEq(list[1], h) THEN Without(Tail(list), h)
    ELSE <<list[1]>> \o Without(Tail(list), h)

\* off(event, handler): del for handler None, else the list without handler
RemoveHandlers(hs, e, h) ==
    IF e \notin DOMAIN hs THEN hs
    ELSE IF h = None THEN [x \in DOMAIN hs \ {e} |-> hs[x]]
    ELSE [hs EXCEPT ![e] = Without(hs[e], h)]

\* on(event, handler); append mutates the list object a dispatch of that event
\* may be iterating
On(e, h) ==
    /\ TotalHandlers(eventHandlers, DOMAIN eventHandlers) < MaxHandlers
    /\ eventHandlers' = AppendHandler(eventHandlers, e, h)
    /\ listeners' = [l \in ConnIds |->
                        IF listeners[l].pc = "handler" /\ listeners[l].hlLive
                              /\ listeners[l].event = e
                        THEN [listeners[l] EXCEPT !.hl = Append(@, h)]
                        ELSE listeners[l]]
    /\ ev' = <<EvOn(e, h)>>
    /\ UNCHANGED <<runnerVars, validatorVars, direct, sending, connected, websocket, listenTask, conns, streamPc>>

\* off(event, handler=None); the dictionary gets a new list (or loses the key),
\* and the list object a dispatch is iterating stays as it is
Off(e, h) ==
    /\ eventHandlers' = RemoveHandlers(eventHandlers, e, h)
    /\ listeners' = [l \in ConnIds |->
                        IF listeners[l].pc = "handler" /\ listeners[l].event = e
                              /\ e \in DOMAIN eventHandlers
                        THEN [listeners[l] EXCEPT !.hlLive = FALSE]
                        ELSE listeners[l]]
    /\ ev' = <<EvOff(e, h)>>
    /\ UNCHANGED <<runnerVars, validatorVars, direct, sending, connected, websocket, listenTask, conns, streamPc>>

---------------------------------------------------------------------------
(* Sends of the stream: join_agent_room, leave_agent_room, subscribe_to_*, _send *)

AgentIds == {"a1", "a2"}
Helpers ==
    {"join_agent_room", "leave_agent_room", "subscribe_to_verifications",
     "subscribe_to_escrows"}

\* f"agent:{agent_id}"
RoomOf(id) == "agent:" \o id

VerificationEvents ==
    <<"verification_submitted", "verification_approved", "verification_rejected">>
EscrowEvents == <<"escrow_created", "escrow_completed", "escrow_disputed">>

\* a helper that sends the same room whatever agent_id it is given
HelperMessageFixedId(op, id) ==
    IF op = "join_agent_room" THEN [action |-> "join", room |-> RoomOf("a1")]
    ELSE IF op = "leave_agent_room" THEN [action |-> "leave", room |-> RoomOf("a1")]
    ELSE IF op = "subscribe_to_verifications"
    THEN [action |-> "subscribe", events |-> VerificationEvents, agentId |-> "a1"]
    ELSE [action |-> "subscribe", events |-> EscrowEvents, agentId |-> "a1"]

\* the dictionary each helper builds
HelperMessage(op, id) ==
    IF op = "join_agent_room" THEN [action |-> "join", room |-> RoomOf(id)]
    ELSE IF op = "leave_agent_room" THEN [action |-> "leave", room |-> RoomOf(id)]
    ELSE IF op = "subscribe_to_verifications"
    THEN [action |-> "subscribe", events |-> VerificationEvents, agentId |-> id]
    ELSE [action |-> "subscribe", events |-> EscrowEvents, agentId |-> id]

\* the messages the program passes to _send itself
RawMessages == {[action |-> "ping"]}

\* json.dumps(message): the text of a JSON object
JsonDumps(message) == [kind |-> "object", value |-> message]

NoSend == [pc |-> "none"]

EvSend(op, arg) == [op |-> "send", call |-> op, arg |-> arg]
EvSendRaised(op, why, sent) == [op |-> "send_raised", call |-> op, why |-> why, sent |-> sent]
EvTransmit(c, text) == [op |-> "transmit", conn |-> c, text |-> text]
EvSendReturned(op) == [op |-> "send_returned", call |-> op]

\* a _send that looks at the connection object only
SendRefusedSocketOnly == websocket = 0

\* if not self._connected or not self._websocket: raise WebSocketError
SendRefused == ~connected \/ websocket = 0

\* a _send whose except clause logs the failure and returns
SendFailureSwallowed(op, evs) == ev' = Append(evs, EvSendReturned(op))

\* except Exception as e: raise WebSocketError(...)
AfterSendFailure(op, evs) == ev' = Append(evs, EvSendRaised(op, "WebSocketError", TRUE))

\* _send(message) up to `await self._websocket.send(json.dumps(message))`
CallSend(op, message, evs) ==
    IF SendRefused
    THEN /\ ev' = Append(evs, EvSendRaised(op, "WebSocketError", FALSE))
         /\ UNCHANGED sending
    ELSE /\ sending' = [pc |-> "inSend", call |-> op, text |-> JsonDumps(message),
                        conn |-> websocket]
         /\ ev' = evs

\* a helper: if not self._connected: raise WebSocketError; else build the
\* message and await self._send(message)
SendHelper(op, id) ==
    /\ sending = NoSend
    /\ IF ~connected
       THEN /\ ev' = <<EvSend(op, id), EvSendRaised(op, "WebSocketError", FALSE)>>
            /\ UNCHANGED sending
       ELSE CallSend(op, HelperMessage(op, id), <<EvSend(op, id)>>)
    /\ UNCHANGED <<runnerVars, validatorVars, direct, connected, websocket, eventHandlers,
                   listenTask, listeners, conns, streamPc>>

\* _send(message) called by the program
SendRaw(message) ==
    /\ sending = NoSend
    /\ CallSend("_send", message, <<EvSend("_send", message)>>)
    /\ UNCHANGED <<runnerVars, validatorVars, direct, connected, websocket, eventHandlers,
                   listenTask, listeners, conns, streamPc>>

\* websocket.send(text) completes: the text went out, or the transport raised
\* (ConnectionClosed on a connection that is closed, another error otherwise)
SendReturn ==
    /\ sending # NoSend
    /\ sending' = NoSend
    /\ \/ /\ conns[sending.conn] = "open"
          /\ ev' = <<EvTransmit(sending.conn, sending.text), EvSendReturned(sending.call)>>
       \/ AfterSendFailure(sending.call, <<>>)
    /\ UNCHANGED <<runnerVars, validatorVars, direct, connected, websocket, eventHandlers,
                   listenTask, listeners, conns, streamPc>>

---------------------------------------------------------------------------
(* The result validator: ResultValidator (validator.py) *)

\* number of rules a validator may hold, number of inputs of one validate_many
MaxRules == 2
MaxInputs == 2

\* the result dictionaries handed to validate
Inputs == {"in1", "in2"}

\* what rule.func(result) does: it returns a ValidationResult, or raises
RuleOutcomes ==
    {[kind |-> "result", valid |-> TRUE, errors |-> <<>>, reason |-> None],
     [kind |-> "result", valid |-> FALSE, errors |-> <<"e1">>, reason |-> "why"],
     [kind |-> "result", valid |-> FALSE, errors |-> <<>>, reason |-> None],
     [kind |-> "raise", msg |-> "boom"]}

\* ValidationRule(name, func): func is a function of the input; the rules of
\* the program either ignore the input or accept "in1"
RuleNames == {"r1", "r2"}
RuleFuncs ==
    {f \in [Inputs -> RuleOutcomes] :
        f["in1"] = f["in2"] \/ (f["in1"].kind = "result" /\ f["in1"].valid)}
ValidationRules == [name : RuleNames, func : RuleFuncs]

\* "; ".join(errors)
RECURSIVE Join(_)
Join(errors) ==
    IF Len(errors) = 1 THEN errors[1]
    ELSE errors[1] \o "; " \o Join(Tail(errors))

\* f"규칙 '{rule.name}' 실행 중 오류: {str(e)}"
RaisedText(name, msg) == "rule '" \o name \o "': " \o msg

\* what one rule adds to all_errors: the errors of its result, then its reason
Collected(rule, out) ==
    IF out.kind = "raise" THEN <<RaisedText(rule.name, out.msg)>>
    ELSE IF out.valid THEN <<>>
    ELSE out.errors \o (IF Truthy(out.reason) THEN <<out.reason>> ELSE <<>>)

\* the rule returned a result that is valid
Passed(out) == out.kind = "result" /\ out.valid

EvRule(input, i, rule, out) ==
    [op |-> "rule", input |-> input, pos |-> i, name |-> rule.name, out |-> out.kind]

EvValidate(input) == [op |-> "validate", input |-> input]
EvValidated(res) == [op |-> "validated", result |-> res]
EvValidateMany(inputs) == [op |-> "validate_many", inputs |-> inputs]
EvValidatedMany(results) == [op |-> "validated_many", results |-> results]
EvRuleChange(how, arg, found) == [op |-> how, arg |-> arg, found |-> found]

\* return ValidationResult(valid=all_valid, errors=all_errors, reason=...)
ValidationOf(acc) ==
    [result |-> [valid |-> acc.valid, errors |-> acc.errors,
                 reason |-> IF acc.errors # <<>> THEN Join(acc.errors) ELSE None],
     calls |-> acc.calls]

RECURSIVE ValidateFrom(_, _, _, _)

\* a loop that is left at the first rule that fails
RuleFailureEndsLoop(rs, i, input, acc) ==
    IF acc.valid THEN ValidateFrom(rs, i + 1, input, acc) ELSE ValidationOf(acc)

\* the end of the loop body, reached from the try and from the except: the
\* next rule
AfterRule(rs, i, input, acc) == ValidateFrom(rs, i + 1, input, acc)

\* for rule in self._rules: from rule i on, with all_valid and all_errors in acc
ValidateFrom(rs, i, input, acc) ==
    IF i > Len(rs) THEN ValidationOf(acc)
    ELSE LET out == rs[i].func[input]
         IN  AfterRule(rs, i, input,
                       [valid |-> acc.valid /\ Passed(out),
                        errors |-> acc.errors \o Collected(rs[i], out),
                        calls |-> Append(acc.calls, EvRule(input, i, rs[i], out))])

\* validate(result)
ValidateResult(rs, input) ==
    ValidateFrom(rs, 1, input, [valid |-> TRUE, errors |-> <<>>, calls |-> <<>>])

\* [self.validate(result) for result in results]
RECURSIVE ValidateEach(_, _)
ValidateEach(rs, inputs) ==
    IF inputs = <<>> THEN [results |-> <<>>, calls |-> <<>>]
    ELSE LET one == ValidateResult(rs, Head(inputs))
             rest == ValidateEach(rs, Tail(inputs))
         IN  [results |-> <<one.result>> \o rest.results,
              calls |-> one.calls \o rest.calls]

\* the position of the first rule of that name, 0 if there is none
FirstNamed(rs, name) ==
    IF \E i \in 1..Len(rs) : rs[i].name = name
    THEN CHOOSE i \in 1..Len(rs) :
            rs[i].name = name /\ \A j \in 1..(i - 1) : rs[j].name # name
    ELSE 0

\* add_rule(rule) / add_validation_rule(rule)
AddRule(rule) ==
    /\ Len(rules) < MaxRules
    /\ rules' = Append(rules, rule)
    /\ ev' = <<EvRuleChange("add_rule", rule.name, TRUE)>>
    /\ UNCHANGED <<runnerVars, direct, streamVars>>

\* remove_rule(name): pops the first rule of that name
RemoveRule(name) ==
    /\ LET i == FirstNamed(rules, name)
       IN  /\ rules' = IF i = 0 THEN rules
                       ELSE SubSeq(rules, 1, i - 1) \o SubSeq(rules, i + 1, Len(rules))
           /\ ev' = <<EvRuleChange("remove_rule", name, i # 0)>>
    /\ UNCHANGED <<runnerVars, direct, streamVars>>

\* clear_rules()
ClearRules ==
    /\ rules' = <<>>
    /\ ev' = <<EvRuleChange("clear_rules", None, TRUE)>>
    /\ UNCHANGED <<runnerVars, direct, streamVars>>

\* validate(result): the rules are called in order, the result is returned
Validate(input) ==
    /\ LET v == ValidateResult(rules, input)
       IN  ev' = <<EvValidate(input)>> \o v.calls \o <<EvValidated(v.result)>>
    /\ UNCHANGED <<runnerVars, direct, streamVars, validatorVars>>

\* validate_many(results)
ValidateMany(inputs) ==
    /\ LET v == ValidateEach(rules, inputs)
       IN  ev' = <<EvValidateMany(inputs)>> \o v.calls \o <<EvValidatedMany(v.results)>>
    /\ UNCHANGED <<runnerVars, direct, streamVars, validatorVars>>

---------------------------------------------------------------------------
(* The HTTP response handler: ZkestClient / AsyncZkestClient._handle_response *)

\* status codes of HTTP on both sides of each comparison of the handler, and
\* the bodies a response may carry: the text of a JSON object with or without
\* a message, of a JSON array, a text that is not JSON, and no text at all
StatusCodes == {100, 200, 201, 204, 302, 399, 400, 401, 403, 404, 500, 599}
Bodies ==
    {[kind |-> "object", value |-> [message |-> "Server error"]],
     [kind |-> "object", value |-> [success |-> TRUE]],
     [kind |-> "array"],
     [kind |-> "garbage", text |-> "<html>"],
     [kind |-> "garbage", text |-> ""]}
Responses == [status : StatusCodes, body : Bodies]

FailedText == "API request failed"

EvResponse(c, resp) == [op |-> "handle_response", client |-> c, response |-> resp]
Returned(body) == [kind |-> "return", body |-> body]
Raised(error) == [kind |-> "raise", error |-> error]
RaisedAPIError(message, status, data) ==
    [kind |-> "raise", error |-> "APIError", message |-> message,
     status_code |-> status, response_data |-> data]

\* return response.json(): the decoder's error leaves the handler as it is
ReturnBody(resp) ==
    IF JsonDecodes(resp.body) THEN Returned(resp.body) ELSE Raised("JSONDecodeError")

\* response.text or "...": the text of the response, the fixed text if empty
TextOrDefault(body) ==
    IF body.kind = "garbage" /\ body.text # "" THEN body.text
    ELSE IF body.kind = "garbage" THEN FailedText
    ELSE "text"

\* await response.text(): the text of the response as it is
TextOf(body) == IF body.kind = "garbage" THEN body.text ELSE "text"

\* the branch for a status >= 400 other than 401 and 404: the message of the
\* decoded body; the bare except takes the text when json() or data.get raises,
\* and data is bound if json() returned
ErrorOf(resp, text) ==
    IF ~JsonDecodes(resp.body) THEN RaisedAPIError(text, resp.status, None)
    ELSE IF resp.body.kind # "object"
    THEN RaisedAPIError(text, resp.status, resp.body)
    ELSE RaisedAPIError(DictGet(resp.body.value, "message", FailedText),
                        resp.status, resp.body)

\* _handle_response(response), text being the text the error branch falls back to
HandleResponseOf(resp, text) ==
    IF resp.status = 401 THEN Raised("AuthenticationError")
    ELSE IF resp.status = 404
    THEN RaisedAPIError("not found", resp.status, None)
    ELSE IF resp.status >= 400 THEN ErrorOf(resp, text)
    ELSE ReturnBody(resp)

\* ZkestClient._handle_response
HandleResponse(resp) ==
    /\ ev' = <<EvResponse("ZkestClient", resp), HandleResponseOf(resp, TextOrDefault(resp.body))>>
    /\ UNCHANGED <<runnerVars, direct, streamVars, validatorVars>>

\* AsyncZkestClient._handle_response
HandleResponseAsync(resp) ==
    /\ ev' = <<EvResponse("AsyncZkestClient", resp), HandleResponseOf(resp, TextOf(resp.body))>>
    /\ UNCHANGED <<runnerVars, direct, streamVars, validatorVars>>

---------------------------------------------------------------------------
(* Specification: one runner owned by one coroutine of the embedding program *)

Init ==
    /\ role \in Roles
    /\ client \in Clients
    /\ running = FALSE
    /\ taskRef = 0
    /\ callbacks = [k \in AllKeys |-> None]
    /\ tasks = [t \in TaskIds |-> NoTask]
    /\ nextTask = 1
    /\ callerPc = [c \in Callers |-> IF c = "owner" THEN "idle" ELSE "off"]
    /\ awaiting = [c \in Callers |-> 0]
    /\ joined = {}
    /\ direct = NoCall
    /\ connected = FALSE
    /\ websocket = 0
    /\ eventHandlers = NoHandlers
    /\ listenTask = 0
    /\ listeners = [c \in ConnIds |-> NoListener]
    /\ conns = [c \in ConnIds |-> "none"]
    /\ streamPc = "idle"
    /\ sending = NoSend
    /\ rules = <<>>
    /\ ev = <<>>

Next ==
    \/ \E c \in Callers : Start(c)
    \/ \E c \in Callers : Stop(c)
    \/ \E c \in Callers : StopReturn(c)
    \/ \E k \in RegisterKeys, cb \in Callbacks : Register(k, cb)
    \/ \E k \in RegisterKeys : Unregister(k)
    \/ \E t \in TaskIds : TaskStart(t)
    \/ \E t \in TaskIds : FetchReturn(t)
    \/ \E t \in TaskIds : CallbackReturn(t)
    \/ \E t \in TaskIds : SubmitReturn(t)
    \/ \E t \in TaskIds : SleepReturn(t)

Spec == Init /\ [][Next]_vars

---------------------------------------------------------------------------
(* Specification: one runner shared by two coroutines of the embedding program *)

\* another coroutine of the program begins to call start() and stop()
Enter(c) ==
    /\ callerPc[c] = "off"
    /\ callerPc' = [callerPc EXCEPT ![c] = "idle"]
    /\ ev' = <<>>
    /\ UNCHANGED <<role, client, running, taskRef, callbacks, tasks, nextTask,
                   awaiting, joined>>
    /\ UNCHANGED <<direct, streamVars, validatorVars>>

\* the program registers one callback, for the skill "python"
NextShared ==
    \/ \E c \in Callers : Enter(c)
    \/ \E c \in Callers : Start(c)
    \/ \E c \in Callers : Stop(c)
    \/ \E c \in Callers : StopReturn(c)
    \/ Register("python", "cb1")
    \/ \E t \in TaskIds : TaskStart(t)
    \/ \E t \in TaskIds : FetchReturn(t)
    \/ \E t \in TaskIds : CallbackReturn(t)
    \/ \E t \in TaskIds : SubmitReturn(t)
    \/ \E t \in TaskIds : SleepReturn(t)

\* a verifier on a client that implements the Gateway interface
InitShared == Init /\ role = "verifier" /\ client = "GatewayClient"

SpecShared == InitShared /\ [][NextShared]_vars

---------------------------------------------------------------------------
(* Specification: a program that calls verify_task / validate_result itself *)

NextDirect ==
    \/ \E task \in DirectTasks : VerifyTask(task)
    \/ VerifyTaskReturn
    \/ \E k \in RegisterKeys, cb \in Callbacks : Register(k, cb)
    \/ \E k \in RegisterKeys : Unregister(k)

SpecDirect == Init /\ [][NextDirect]_vars

---------------------------------------------------------------------------
(* Specification: one stream owned by one coroutine of the embedding program *)

InitStream == Init /\ role = "verifier" /\ client = "AsyncZkestClient"

NextStream ==
    \/ Connect
    \/ ConnectReturn
    \/ Disconnect
    \/ DisconnectAwaitReturn
    \/ CloseReturn
    \/ \E e \in EventNames, h \in StreamHandlers : On(e, h)
    \/ \E e \in EventNames, h \in StreamHandlers \cup {None} : Off(e, h)
    \/ \E l \in ConnIds : ListenStart(l)
    \/ \E l \in ConnIds : RecvReturn(l)
    \/ \E l \in ConnIds : HandlerReturn(l)

SpecStream == InitStream /\ [][NextStream]_vars

---------------------------------------------------------------------------
(* Specification: a stream whose owner sends while the loop receives *)

NextSend ==
    \/ Connect
    \/ ConnectReturn
    \/ Disconnect
    \/ DisconnectAwaitReturn
    \/ CloseReturn
    \/ \E e \in EventNames, h \in StreamHandlers : On(e, h)
    \/ \E l \in ConnIds : ListenStart(l)
    \/ \E l \in ConnIds : RecvReturn(l)
    \/ \E l \in ConnIds : HandlerReturn(l)
    \/ \E op \in Helpers, id \in AgentIds : SendHelper(op, id)
    \/ \E m \in RawMessages : SendRaw(m)
    \/ SendReturn

SpecSend == InitStream /\ [][NextSend]_vars

---------------------------------------------------------------------------
(* Specification: a stream whose owner registers bound methods as handlers,
   on connections no frame arrives on *)

\* the pending recv() of a loop task that was cancelled
RecvCancelled(l) ==
    /\ listeners[l].pc = "recv"
    /\ listeners[l].mustCancel
    /\ RecvReturn(l)

NextSubs ==
    \/ Connect
    \/ ConnectReturn
    \/ Disconnect
    \/ DisconnectAwaitReturn
    \/ CloseReturn
    \/ \E e \in EventNames, h \in BoundHandlers : On(e, h)
    \/ \E e \in EventNames, h \in BoundHandlers \cup {None} : Off(e, h)
    \/ \E l \in ConnIds : ListenStart(l)
    \/ \E l \in ConnIds : RecvCancelled(l)

SpecSubs == InitStream /\ [][NextSubs]_vars

---------------------------------------------------------------------------
(* Specification: a program that builds a validator and validates with it *)

InputLists == UNION {[1..n -> Inputs] : n \in 0..MaxInputs}

NextValidator ==
    \/ \E r \in ValidationRules : AddRule(r)
    \/ \E n \in RuleNames : RemoveRule(n)
    \/ ClearRules
    \/ \E input \in Inputs : Validate(input)
    \/ \E inputs \in InputLists : ValidateMany(inputs)

\* the runner and the stream of InitStream stay as constructed
SpecValidator == InitStream /\ [][NextValidator]_vars

---------------------------------------------------------------------------
(* Specification: responses of the Gateway handed to _handle_response *)

NextHttp ==
    \/ \E resp \in Responses : HandleResponse(resp)
    \/ \E resp \in Responses : HandleResponseAsync(resp)

SpecHttp == InitStream /\ [][NextHttp]_vars

---------------------------------------------------------------------------
(* Helpers of the properties *)

Live(t) == tasks[t].pc \notin {"none", "done"}
LiveTasks == {t \in TaskIds : Live(t)}
IsGatewayCall(e) == e.op \in {"fetch", "submit"}
Has(op) == \E k \in DOMAIN ev : ev[k].op = op

---------------------------------------------------------------------------
(* C1 *)

\* C1: once a stop() that found the runner running has returned, the background
\* task it cancelled has left _run_loop, at whatever await the task was
\* suspended, and no Gateway call (fetch or submit) is made by that task.
StopReturnsAfterTaskExit ==
    /\ \A t \in joined : tasks[t].pc = "done"
    /\ \A k \in DOMAIN ev : IsGatewayCall(ev[k]) => ev[k].task \notin joined

\* a stop() has just returned after waiting for a task that was inside its loop
StopReturnedWitness ==
    \E t \in joined : tasks[t].ticked /\ ev = <<EvStopReturn("owner", t)>>

---------------------------------------------------------------------------
(* C2, C3 *)

RunnerState == <<running, taskRef, tasks, nextTask, callbacks, callerPc, awaiting, joined>>

\* C2: a start() call on a runner that is running returns without an error and
\* changes nothing: no task is created and the existing one is untouched and
\* stays the only live task; a start() right after a start() leaves exactly one.
StartWhileRunningIsNoOp ==
    [][(running /\ Len(ev') > 0 /\ ev'[1].op = "start")
          => /\ UNCHANGED RunnerState
             /\ Cardinality(LiveTasks') <= 1
             /\ ((\E k \in DOMAIN ev : ev[k].op = "start" /\ ~ev[k].noop)
                    => LiveTasks' = {taskRef'})]_vars

\* the second of two start() calls in a row has returned: one task, not yet run
StartTwiceWitness ==
    /\ ev = <<EvStart("owner", TRUE)>>
    /\ LiveTasks = {taskRef}
    /\ tasks[taskRef].pc = "new"

\* C3: a stop() call on a runner that is not running (never started, or already
\* stopped) returns without an error, cancels nothing, makes no Gateway call
\* and changes no state of the runner.
StopWhileIdleIsNoOp ==
    [][(~running /\ Len(ev') > 0 /\ ev'[1].op = "stop")
          => /\ UNCHANGED RunnerState
             /\ Len(ev') = 1]_vars

\* a second stop() has returned after a stop() that stopped a running loop
StopTwiceWitness ==
    /\ ev = <<EvStop("owner", TRUE)>>
    /\ \E t \in joined : tasks[t].ticked

---------------------------------------------------------------------------
(* C4 *)

\* the step is one of task t: the events of the step are the task's
Stepped(t) == Len(ev') > 0 /\ "task" \in DOMAIN ev'[1] /\ ev'[1].task = t
StopRequested(t) == ~running \/ tasks[t].mustCancel

\* C4: a fetch that fails never ends the loop: the task logs and goes to the
\* inter-tick sleep, and when that sleep is over and no stop() was called it
\* fetches again, also after a failure that followed a failure.
FetchFailureKeepsLoop ==
    [][\A t \in TaskIds :
          /\ (Stepped(t) /\ tasks[t].pc = "fetch" /\ Has("fetch_failed")')
                => /\ tasks'[t].pc = "sleep"
                   /\ ev' = <<EvFetchFailed(t, tasks[t].lastFetch), EvSleep(t)>>
          /\ (Stepped(t) /\ tasks[t].pc = "sleep" /\ tasks[t].lastFetch = "failed"
                /\ ~StopRequested(t))
                => /\ tasks'[t].pc = "fetch"
                   /\ ev' = <<EvFetch(t)>>]_vars

\* a second consecutive fetch has failed and the task is asleep, not stopped
FetchFailedTwiceWitness ==
    \E t \in TaskIds :
        /\ ev = <<EvFetchFailed(t, "failed"), EvSleep(t)>>
        /\ tasks[t].pc = "sleep"
        /\ running

---------------------------------------------------------------------------
(* C5 *)

\* the text contains the token
Contains(text, tok) == \E j \in DOMAIN text : text[j] = tok

\* the payload of a degraded verification carrying the error text msg
IsDegradedPayload(data, msg) ==
    /\ data.status = StatusRejected
    /\ data.score = DegradedScore
    /\ Contains(data.feedback, msg)

\* the events of the step go on, after position k, with the next item of the
\* list (n items) while the runner is running, and with the sleep otherwise
GoesOnAfter(k, t, i, n) ==
    /\ k < Len(ev)
    /\ IF i < n /\ running
       THEN ev[k + 1].op \in {"item", "skip"} /\ ev[k + 1].idx = i + 1
       ELSE ev[k + 1] \in {EvSleep(t), EvBreak(t, i + 1)}

\* when a verification callback raised for item i, the same step builds the
\* degraded decision and submits it under the item's id; the task is not done,
\* and it is suspended in that submit with the rest of the list still to do,
\* or (the client has no update_verification) it has gone on with the list
DegradedIsSubmitted ==
    \A k \in DOMAIN ev :
        (ev[k].op = "callback_raised" /\ role = "verifier") =>
            LET t == ev[k].task
                i == ev[k].idx
            IN  /\ k + 2 <= Len(ev)
                /\ ev[k + 1].op = "decision"
                /\ ev[k + 1].idx = i
                /\ ev[k + 1].res.valid = FALSE
                /\ ev[k + 1].res.score = DegradedScore
                /\ Contains(ev[k + 1].res.feedback, ev[k].msg)
                /\ ev[k + 2].op = "submit"
                /\ ev[k + 2].id = ItemId(i)
                /\ IsDegradedPayload(ev[k + 2].data, ev[k].msg)
                /\ tasks[t].pc # "done"
                /\ IF ev[k + 2].sent
                   THEN tasks[t].pc = "submit" /\ tasks[t].idx = i
                        /\ tasks[t].data = ev[k + 2].data
                   ELSE /\ k + 3 <= Len(ev)
                        /\ ev[k + 3].op = "submit_failed"
                        /\ GoesOnAfter(k + 3, t, i, ev[k + 3].of)

\* when the submit of a degraded decision is over and no stop() was called, the
\* task goes on with the next item of the same list: it invokes the callback
\* registered for its skill, or applies the default
SiblingsStillProcessed ==
    \A t \in TaskIds :
        (/\ Stepped(t) /\ role = "verifier"
         /\ tasks[t].pc = "submit" /\ ~StopRequested(t)
         /\ \E msg \in ErrorTexts : IsDegradedPayload(tasks[t].data, msg)
         /\ tasks[t].idx < Len(tasks[t].items))
        => LET j == tasks[t].idx + 1
               cb == callbacks[tasks[t].items[j].skill]
           IN  /\ ev'[2] = EvItem(t, j, tasks[t].items[j])
               /\ IF cb # None
                  THEN /\ ev'[3] = EvInvoke(t, j, cb)
                       /\ tasks'[t].pc = "callback" /\ tasks'[t].idx = j
                       /\ tasks'[t].items = tasks[t].items
                  ELSE ev'[4].op = "submit" /\ ev'[4].id = ItemId(j)

\* C5: in the verifier, a callback that raises an error yields a submitted
\* degraded decision for its item (valid=false, score 0, feedback containing
\* the error text, status Rejected); the loop is not aborted and the items after
\* it in the same list are still processed in that tick.
RaisingCallbackIsIsolated == []DegradedIsSubmitted /\ [][SiblingsStillProcessed]_vars

\* a callback has just raised for the first item of a list of two
RaisingCallbackWitness ==
    \E t \in TaskIds :
        /\ role = "verifier"
        /\ Len(ev) > 0
        /\ ev[1].op = "callback_raised"
        /\ ev[1].idx = 1
        /\ tasks[t].pc = "submit"
        /\ Len(tasks[t].items) = 2

---------------------------------------------------------------------------
(* C6 *)

\* C6: a submit that fails (the Gateway call raised, or the client has no
\* update_verification) is logged for its item only: the task is not done, the
\* same step goes on with the next item of the list in order, or with the
\* inter-tick sleep after the last item, and later items are still handled.
SubmitFailureIsConfined ==
    \A k \in DOMAIN ev :
        ev[k].op = "submit_failed" =>
            LET t == ev[k].task
                i == ev[k].idx
            IN  /\ GoesOnAfter(k, t, i, ev[k].of)
                /\ tasks[t].pc \in {"callback", "submit", "sleep"}
                /\ tasks[t].pc \in {"callback", "submit"}
                      => tasks[t].idx > i /\ Len(tasks[t].items) = ev[k].of

\* the Gateway refused the submit of item 1 and the task is working on item 2
SubmitFailureWitness ==
    \E t \in TaskIds :
        /\ Len(ev) > 0
        /\ ev[1] = EvSubmitFailed(t, 1, 2, "APIError")
        /\ tasks[t].pc \in {"callback", "submit"}
        /\ tasks[t].idx = 2

---------------------------------------------------------------------------
(* C7 *)

\* C7: an item whose skill has no registered callback gets exactly the default
\* decision, also with a callback registered under "other": the verifier decides
\* {valid=true, score=70, fixed feedback} and submits it as Approved/70 under the
\* item's id, the approver decides {valid=true} and submits an approve.
UnregisteredSkillGetsDefault ==
    \A k \in DOMAIN ev :
        (ev[k].op = "item" /\ callbacks[ev[k].skill] = None) =>
            /\ k + 2 <= Len(ev)
            /\ ev[k + 1].op = "decision"
            /\ ev[k + 1].kind = "default"
            /\ ev[k + 1].res.valid = TRUE
            /\ ev[k + 2].op = "submit"
            /\ ev[k + 2].id = ItemId(ev[k].idx)
            /\ IF role = "verifier"
               THEN /\ ev[k + 1].res = [valid |-> TRUE, score |-> DefaultScore,
                                        feedback |-> <<"AutomaticVerificationDone">>]
                    /\ ev[k + 2].data = [status |-> StatusApproved, score |-> DefaultScore,
                                         feedback |-> <<"AutomaticVerificationDone">>]
               ELSE /\ ev[k + 1].res = [valid |-> TRUE, reason |-> <<>>]
                    /\ ev[k + 2].data = [status |-> "approved"]

\* an item of skill rust was handled while a callback is registered under "other"
\* and none under rust, and its default decision went out to the Gateway
DefaultDecisionWitness ==
    \E k \in DOMAIN ev :
        /\ ev[k].op = "item"
        /\ ev[k].skill = "rust"
        /\ callbacks["other"] # None
        /\ callbacks["rust"] = None
        /\ k + 2 <= Len(ev)
        /\ ev[k + 2].op = "submit"
        /\ ev[k + 2].sent

---------------------------------------------------------------------------
(* C8 *)

\* the registry after a register or unregister call
RegistryStep ==
    /\ \A key \in RegisterKeys, cb \in Callbacks :
          ev' = <<EvRegister(key, cb)>>
             => /\ callbacks'[key] = cb
                /\ \A other \in AllKeys \ {key} : callbacks'[other] = callbacks[other]
    /\ \A key \in RegisterKeys :
          ev' = <<EvUnregister(key)>>
             => /\ callbacks'[key] = None
                /\ \A other \in AllKeys \ {key} : callbacks'[other] = callbacks[other]
                /\ callbacks[key] = None => UNCHANGED RunnerState

\* the run loop resolves an item with the registry as it is at that moment
ResolvesCurrentRegistry ==
    \A k \in DOMAIN ev :
        ev[k].op = "item" =>
            /\ k < Len(ev)
            /\ IF callbacks[ev[k].skill] = None
               THEN ev[k + 1].op = "decision" /\ ev[k + 1].kind = "default"
               ELSE ev[k + 1] = EvInvoke(ev[k].task, ev[k].idx, callbacks[ev[k].skill])

\* C8: the registry holds one callback per key: register(key, cb) replaces
\* whatever the key had and touches no other key, unregister(key) empties the
\* key and is a no-op without error when the key is absent; an item is resolved
\* to the callback registered last under its skill, and to the default decision
\* when the skill has none (never registered, or unregistered).
LastRegistrationWins == []ResolvesCurrentRegistry /\ [][RegistryStep]_vars

\* in one step cb1 returned for item 1 and item 2, of the same skill, went to
\* cb2: cb2 was registered over cb1 while cb1 ran
ReRegisteredWitness ==
    \E t \in TaskIds :
        /\ Len(ev) > 0
        /\ ev[1].op = "callback_returned"
        /\ ev[1].cb = "cb1"
        /\ \E k \in DOMAIN ev : ev[k] = EvInvoke(t, 2, "cb2")
        /\ tasks[t].items[1].skill = tasks[t].items[2].skill

---------------------------------------------------------------------------
(* C9 *)

\* C9: for every item whose callback returned a decision, the verifier submits
\* that decision under the item's id, with status Approved for valid and
\* Rejected for not valid and with the callback's score, and the Gateway
\* receives that submitDecision call.
CallbackDecisionReachesGateway ==
    \A k \in DOMAIN ev :
        (ev[k].op = "callback_returned" /\ role = "verifier") =>
            /\ k + 2 <= Len(ev)
            /\ ev[k + 2].op = "submit"
            /\ ev[k + 2].id = ItemId(ev[k].idx)
            /\ ev[k + 2].data.status =
                  (IF ev[k].res.valid THEN StatusApproved ELSE StatusRejected)
            /\ ev[k + 2].data.score = ev[k].res.score
            /\ ev[k + 2].sent

---------------------------------------------------------------------------
(* C10 *)

\* a fetch that returned the empty list is followed by the sleep and nothing else
EmptyFetchSleeps ==
    \A t \in TaskIds :
        (Len(ev) > 0 /\ ev[1].op = "fetched" /\ ev[1].task = t /\ ev[1].count = 0)
            => /\ Len(ev) = 2
               /\ ev[2] = EvSleep(t)
               /\ tasks[t].pc = "sleep"
               /\ tasks[t].sleeps = 1

\* a task that fetched before fetches again only out of its sleep, the one
\* sleep since that fetch
OneSleepBetweenFetches ==
    \A t \in TaskIds :
        (Stepped(t) /\ tasks[t].ticked /\ \E k \in DOMAIN ev' : ev'[k] = EvFetch(t))
            => /\ tasks[t].pc = "sleep"
               /\ tasks[t].sleeps = 1
               /\ ev' = <<EvFetch(t)>>

\* C10: a tick whose fetch returned no item makes no submit call and goes to the
\* inter-tick sleep; between two consecutive fetches of one run of the loop
\* there is exactly one sleep, whether the earlier fetch returned items,
\* returned nothing or failed.
OneSleepPerTick == []EmptyFetchSleeps /\ [][OneSleepBetweenFetches]_vars

\* the loop fetches again after a tick whose fetch returned the empty list
FetchAfterEmptyTickWitness ==
    \E t \in TaskIds :
        /\ ev = <<EvFetch(t)>>
        /\ tasks[t].pc = "fetch"
        /\ tasks[t].lastFetch = "empty"

---------------------------------------------------------------------------
(* C11 *)

\* C11: a callback that is executing when stop() is called runs to completion:
\* the background task never leaves _run_loop by a cancellation delivered
\* while it is suspended inside the callback of an item.
CallbackRunsToCompletion ==
    \A k \in DOMAIN ev :
        (ev[k].op = "exit" /\ ev[k].at = "callback") => ev[k].why # "cancelled"

---------------------------------------------------------------------------
(* C12 *)

\* a task suspended in a callback or in a submit is working on an Approved item
SuspendedOnApproved ==
    \A t \in TaskIds :
        tasks[t].pc \in {"callback", "submit"}
            => tasks[t].items[tasks[t].idx].status = StatusApproved

\* the loop takes up the Approved items only; an item of another status is
\* passed over: the step goes straight on to the next item, or to the sleep
SkipsOtherStatuses ==
    \A k \in DOMAIN ev :
        /\ ev[k].op = "item" => ev[k].status = StatusApproved
        /\ ev[k].op = "skip" =>
              /\ ev[k].status \in VerificationStatus \ {StatusApproved}
              /\ k < Len(ev)
              /\ ev[k + 1].op \in {"item", "skip", "sleep", "break"}
              /\ ev[k + 1].op \in {"item", "skip", "break"} => ev[k + 1].idx = ev[k].idx + 1

\* of the enumeration's values, Approved is the only one the approver handles
OnlyApprovedIsHandled ==
    \A st \in VerificationStatus, sk \in Skills :
        Handles(Item(1, sk, st)) <=> st = StatusApproved

\* a callback invocation, a decision or a submit call of a step is for an item
\* the step took up as Approved, or for the Approved item the task was
\* suspended on
ActsOnApprovedOnly ==
    \A t \in TaskIds :
        Stepped(t) =>
            \A k \in DOMAIN ev' :
                ev'[k].op \in {"invoke", "decision", "submit"} =>
                    \/ \E j \in 1..(k - 1) :
                          /\ ev'[j].op = "item"
                          /\ ev'[j].idx = ev'[k].idx
                          /\ ev'[j].status = StatusApproved
                    \/ /\ tasks[t].pc = "callback"
                       /\ tasks[t].idx = ev'[k].idx
                       /\ tasks[t].items[tasks[t].idx].status = StatusApproved

\* C12: the approver invokes its validation callback and submits approve or
\* reject only for fetched items whose status is Approved; an item of any other
\* status gets no callback invocation and no submit call.
ApproverHandlesApprovedOnly ==
    /\ [](role = "approver"
            => SuspendedOnApproved /\ SkipsOtherStatuses /\ OnlyApprovedIsHandled)
    /\ [][role = "approver" => ActsOnApprovedOnly]_vars

\* the approver passed over a Pending item and took up the Approved item after
\* it in the same list, whose approve went out to the Gateway
SkippedThenHandledWitness ==
    \E t \in TaskIds :
        /\ role = "approver"
        /\ Len(ev) >= 3
        /\ ev[2].op = "skip" /\ ev[2].status = "Pending"
        /\ ev[3].op = "item" /\ ev[3].idx = 2
        /\ tasks[t].pc = "submit"
        /\ tasks[t].data = ApproveData

---------------------------------------------------------------------------
(* C13 *)

\* the key of a task: its skill, else its taskType, else "other"
KeyOf(task) ==
    IF "skill" \in DOMAIN task THEN task.skill
    ELSE IF "taskType" \in DOMAIN task THEN task.taskType
    ELSE "other"

\* the callback registered under a key, None without one
RegisteredUnder(key) == IF key \in DOMAIN callbacks THEN callbacks[key] ELSE None

\* C13: the lookup key of a task is its skill, its taskType when it has no
\* skill, and "other" when it has neither; the task goes to the callback
\* registered under that key and gets the default decision when there is none,
\* so a task with neither field goes to the callback under "other" if any.
ResolveFollowsKeyOrder ==
    \A k \in DOMAIN ev :
        ev[k].op = "verify_task" =>
            /\ k < Len(ev)
            /\ IF RegisteredUnder(KeyOf(ev[k].arg)) # None
               THEN /\ ev[k + 1] = EvDirectInvoke(RegisteredUnder(KeyOf(ev[k].arg)), ev[k].arg)
                    /\ direct.pc = "callback"
                    /\ direct.cb = RegisteredUnder(KeyOf(ev[k].arg))
               ELSE /\ ev[k + 1].op = "direct_result"
                    /\ ev[k + 1].kind = "default"
                    /\ ev[k + 1].res.valid = TRUE
                    /\ role = "verifier" => ev[k + 1].res.score = DefaultScore
                    /\ direct.pc = "none"

\* a task with neither skill nor taskType went to the callback under "other"
NeitherFieldWitness ==
    /\ Len(ev) = 2
    /\ ev[1] = EvVerifyTask([id |-> "d1"])
    /\ ev[2].op = "direct_invoke"
    /\ ev[2].cb = callbacks["other"]

---------------------------------------------------------------------------
(* Helpers of the stream properties *)

LiveListeners == {l \in ConnIds : listeners[l].pc \notin {"none", "done"}}

\* the step is one of loop task l: the events of the step are the task's
LoopStepped(l) == Len(ev') > 0 /\ "loop" \in DOMAIN ev'[1] /\ ev'[1].loop = l

---------------------------------------------------------------------------
(* C14 *)

\* C14: connect() on a stream that is already connected fails with a
\* WebSocketError (and leaves the connection and its receive loop untouched).
ConnectWhileConnectedFails ==
    \A k \in DOMAIN ev :
        ev[k] = EvConnect("already") =>
            /\ k < Len(ev)
            /\ ev[k + 1] = EvConnectFailed("WebSocketError")

---------------------------------------------------------------------------
(* C15 *)

\* C15: in every reachable state, connected() returning true implies that
\* exactly one receive loop task is active.
ConnectedHasOneLoop == connected => Cardinality(LiveListeners) = 1

---------------------------------------------------------------------------
(* C16 *)

\* C16: when recv() signals that the remote side closed the connection, the
\* receive loop exits and connected() returns false from then on (and nothing
\* reconnects).
RemoteCloseDisconnects ==
    \A k \in DOMAIN ev :
        (ev[k].op = "loop_exit" /\ ev[k].why = "closed") =>
            /\ listeners[ev[k].loop].pc = "done"
            /\ ~connected

---------------------------------------------------------------------------
(* C17 *)

\* when a disconnect() that found the stream connected returns, the stream is
\* disconnected, the loop task it awaited is done, no loop task is left, the
\* connection is closed and the handle released
DisconnectReturnsClean ==
    \A k \in DOMAIN ev :
        ev[k].op = "disconnected" =>
            /\ ~connected
            /\ listeners[ev[k].awaited].pc = "done"
            /\ LiveListeners = {}
            /\ websocket = 0
            /\ \A c \in ConnIds : conns[c] \in {"none", "closed"}
            /\ streamPc = "idle"

\* between the return of disconnect() and the next connect() the stream has
\* no loop task and no transport handle, and nothing receives
NothingOutlivesDisconnect ==
    (~connected /\ streamPc = "idle") =>
        /\ LiveListeners = {}
        /\ websocket = 0
        /\ \A k \in DOMAIN ev : ev[k].op \notin {"recv", "message", "handler"}

\* disconnect() on a connected stream clears the flag and cancels the loop
\* task, and has not returned in that step unless the loop task was done
DisconnectCancels ==
    (connected /\ Len(ev') > 0 /\ ev'[1].op = "disconnect") =>
        /\ ~connected'
        /\ ~ev'[1].noop
        /\ \A l \in LiveListeners : listeners'[l].mustCancel
        /\ IF LiveListeners # {}
           THEN streamPc' = "inDisconnect" /\ Len(ev') = 1
           ELSE streamPc' = "inClose" /\ conns'[websocket] = "closed"

\* disconnect() on a stream that is not connected changes nothing, no error
DisconnectIdleIsNoOp ==
    (~connected /\ Len(ev') > 0 /\ ev'[1].op = "disconnect") =>
        /\ UNCHANGED streamVars
        /\ ev' = <<EvDisconnect(TRUE)>>

\* C17: disconnect() on a connected stream sets the state to Disconnected,
\* cancels the receive loop and returns only after the loop task has exited and
\* the transport was closed and released, so that nothing of the stream
\* receives after the call; on a disconnected stream it is a no-op, no error.
DisconnectJoinsLoop ==
    /\ [](DisconnectReturnsClean /\ NothingOutlivesDisconnect)
    /\ [][DisconnectCancels /\ DisconnectIdleIsNoOp]_vars

\* a disconnect() has returned after it cancelled a loop task that was
\* suspended and waited for it and for the close of the connection
DisconnectedWitness ==
    /\ ev = <<EvDisconnected(1)>>
    /\ listeners[1].pc = "done"
    /\ conns[1] = "closed"
    /\ ~connected /\ websocket = 0

---------------------------------------------------------------------------
(* C18 *)

\* the payload of a decoded frame: its data field, the frame without one
PayloadExpected(f) == IF "data" \in DOMAIN f THEN f.data ELSE f

\* a handler invocation is the next position of the list the dispatch iterates:
\* position 1 right after the frame was decoded, with the list registered for
\* the event at that moment, and position i + 1 right after handler i is over;
\* every invocation gets the frame's payload
DispatchStartsInOrder ==
    \A k \in DOMAIN ev :
        ev[k].op = "handler" =>
            LET l == ev[k].loop
                i == ev[k].pos
            IN  /\ k = Len(ev) /\ k > 1
                /\ listeners[l].pc = "handler"
                /\ listeners[l].hidx = i
                /\ i <= Len(listeners[l].hl)
                /\ ev[k].handler = listeners[l].hl[i]
                /\ ev[k].event = listeners[l].event
                /\ ev[k].payload = listeners[l].payload
                /\ IF i = 1
                   THEN /\ ev[k - 1].op = "message"
                        /\ listeners[l].hl = eventHandlers[ev[k].event]
                        /\ ev[k].payload = PayloadExpected(ev[k - 1].msg.value)
                   ELSE /\ ev[k - 1].op = "handler_done"
                        /\ ev[k - 1].pos = i - 1
                        /\ ev[k - 1].handler = listeners[l].hl[i - 1]

\* when handler i is over, by a return or by an error, the same step invokes
\* handler i + 1 of the same list, and after the last one the loop goes back
\* to recv()
DispatchGoesOn ==
    \A l \in ConnIds :
        (LoopStepped(l) /\ listeners[l].pc = "handler" /\ ev'[1].op = "handler_done") =>
            LET i == listeners[l].hidx
                hl == listeners[l].hl
            IN  /\ ev'[1].pos = i
                /\ ev'[1].handler = hl[i]
                /\ ev'[1].how \in {"returned", "raised"}
                /\ Len(ev') = 2
                /\ IF i < Len(hl)
                   THEN /\ ev'[2] = EvHandler(l, listeners[l].event, i + 1, hl[i + 1],
                                              listeners[l].payload)
                        /\ listeners'[l].hl = hl
                   ELSE IF connected
                   THEN ev'[2] = EvRecv(l, websocket) /\ listeners'[l].pc = "recv"
                   ELSE ev'[2].op = "loop_exit" /\ ev'[2].why = "returned"

\* a step of the program leaves a dispatch where it is; the handlers of the
\* list it iterates keep their positions
ListOnlyGrows ==
    \A l \in ConnIds :
        (listeners[l].pc = "handler" /\ ~LoopStepped(l)) =>
            /\ listeners'[l].pc = "handler"
            /\ listeners'[l].hidx = listeners[l].hidx
            /\ Len(listeners'[l].hl) >= Len(listeners[l].hl)
            /\ SubSeq(listeners'[l].hl, 1, Len(listeners[l].hl)) = listeners[l].hl

\* C18: for a frame whose event name has n registered handlers the dispatcher
\* invokes the n handlers once each, in registration order, with the frame's
\* payload; a handler that raises an error does not stop the handlers after it
\* from being invoked for that frame, and the loop then receives again.
HandlersRunInOrder ==
    /\ []DispatchStartsInOrder
    /\ [][DispatchGoesOn /\ ListOnlyGrows]_vars

\* the first of two handlers registered for tier_updated raised and the second
\* one, a different handler, is invoked for the same frame
RaisedThenNextWitness ==
    \E l \in ConnIds :
        /\ Len(ev) = 2
        /\ ev[1] = EvHandlerDone(l, 1, "h1", "raised")
        /\ ev[2].op = "handler" /\ ev[2].pos = 2 /\ ev[2].handler = "h2"
        /\ ev[2].event = "tier_updated"
        /\ eventHandlers["tier_updated"] = <<"h1", "h2">>

---------------------------------------------------------------------------
(* C19 *)

NotJson == [kind |-> "garbage"]

\* a frame that is not JSON is logged and nothing else: no handler is invoked,
\* the loop task is suspended in the next recv() and the stream is connected
GarbageIsDropped ==
    \A k \in DOMAIN ev :
        (ev[k].op = "message" /\ ev[k].msg = NotJson) =>
            LET l == ev[k].loop
            IN  /\ ev = <<EvMessage(l, NotJson), EvDropped(l, "JSONDecodeError"),
                          EvRecv(l, websocket)>>
                /\ listeners[l].pc = "recv"
                /\ connected
                /\ conns[websocket] = "open"

\* the step that drops the frame changes nothing of the stream but the loop
\* task's position, and when the very next step is the receipt of a JSON
\* object whose event has handlers, the first of them is invoked
DropThenDispatch ==
    \A l \in ConnIds :
        /\ (LoopStepped(l) /\ ev'[1] = EvMessage(l, NotJson))
              => UNCHANGED <<connected, websocket, eventHandlers, listenTask, conns, streamPc>>
        /\ (/\ LoopStepped(l)
            /\ Len(ev) > 0 /\ ev[1] = EvMessage(l, NotJson)
            /\ ev'[1].op = "message" /\ ev'[1].msg.kind = "object"
            /\ "event" \in DOMAIN ev'[1].msg.value
            /\ ev'[1].msg.value.event \in DOMAIN eventHandlers
            /\ eventHandlers[ev'[1].msg.value.event] # <<>>)
              => /\ Len(ev') = 2
                 /\ ev'[2].op = "handler"
                 /\ ev'[2].handler = eventHandlers[ev'[1].msg.value.event][1]
                 /\ listeners'[l].pc = "handler"

\* C19: an inbound frame that is not JSON is dropped: no handler is invoked for
\* it, the receive loop keeps running, the stream stays connected, and the
\* next valid frame is dispatched to its handlers.
BadFrameIsDropped == []GarbageIsDropped /\ [][DropThenDispatch]_vars

\* a frame that is not JSON was dropped while a handler is registered, and the
\* loop is receiving again
GarbageDroppedWitness ==
    /\ Len(ev) = 3
    /\ ev[1] = EvMessage(1, NotJson)
    /\ listeners[1].pc = "recv"
    /\ "tier_updated" \in DOMAIN eventHandlers
    /\ connected

---------------------------------------------------------------------------
(* C20 *)

\* the event name of a frame: the event field when the frame has one, else the
\* type field, else none
NameByKey(f) ==
    IF "event" \in DOMAIN f THEN f.event
    ELSE IF "type" \in DOMAIN f THEN f.type
    ELSE None

\* the event name of a frame: the event field when the frame has one that is
\* not empty, else the type field if not empty, else none
NameByValue(f) ==
    IF "event" \in DOMAIN f /\ f.event \notin {"", None} THEN f.event
    ELSE IF "type" \in DOMAIN f /\ f.type \notin {"", None} THEN f.type
    ELSE None

\* the frame decoded at position k of the step, whose event name is `name`, goes
\* to the handlers registered under exactly that name, the first of them
\* invoked in the same step with the frame's payload; with no name or no
\* handler under it the frame is dropped and the loop receives again
FrameDispatchedAs(k, name) ==
    LET l == ev[k].loop
        f == ev[k].msg.value
    IN  /\ k = 1 /\ Len(ev) >= 2
        /\ IF name \in DOMAIN eventHandlers /\ name \notin {"", None}
           THEN IF eventHandlers[name] # <<>>
                THEN /\ ev = <<ev[1], EvHandler(l, name, 1, eventHandlers[name][1],
                                                PayloadExpected(f))>>
                     /\ listeners[l].hl = eventHandlers[name]
                ELSE ev = <<ev[1], EvRecv(l, websocket)>>
           ELSE /\ ev = <<ev[1], EvDropped(l, "no_handler"), EvRecv(l, websocket)>>
                /\ listeners[l].pc = "recv"

\* C20 (as claimed): the event name of a decoded frame is its event field, or
\* its type field when the frame has no event field; the payload is the data
\* field, or the whole frame without one; only the handlers registered under
\* exactly that name are invoked, and none, without an error, when the name has
\* no handler or the frame has no name.
FrameDispatchedByKey ==
    \A k \in DOMAIN ev :
        (ev[k].op = "message" /\ ev[k].msg.kind = "object")
            => FrameDispatchedAs(k, NameByKey(ev[k].msg.value))

\* C20 (amended): the event name of a decoded frame is its event field when that
\* field is present and not empty, and its type field otherwise; the payload is
\* the data field whenever the frame has that key, or the whole frame without
\* it; only the handlers registered under exactly that name are invoked, and
\* none, without an error, when the name has no handler or the frame has no
\* name.
FrameDispatchedByValue ==
    \A k \in DOMAIN ev :
        (ev[k].op = "message" /\ ev[k].msg.kind = "object")
            => FrameDispatchedAs(k, NameByValue(ev[k].msg.value))

\* a frame with an empty event field, a type and no data went to the handler
\* registered under its type, with the whole frame as payload, while a handler
\* is registered under another name too
TypeFallbackWitness ==
    /\ Len(ev) = 2
    /\ ev[1].op = "message" /\ ev[1].msg.kind = "object"
    /\ ev[1].msg.value = [seq |-> 1, event |-> "", type |-> "escrow_created"]
    /\ ev[2].op = "handler"
    /\ ev[2].event = "escrow_created"
    /\ ev[2].payload = ev[1].msg.value
    /\ "tier_updated" \in DOMAIN eventHandlers
    /\ eventHandlers["tier_updated"] # <<>>

---------------------------------------------------------------------------
(* Sends *)

\* the step is the start of a send call (a helper or _send)
SendCalled == ev' # <<>> /\ ev'[1].op = "send"

\* a send call on a stream whose flag is down raises WebSocketError in the
\* same step and hands nothing to the transport
RefusedWhenNotConnected ==
    [][(SendCalled /\ ~connected) =>
          /\ ev' = <<ev'[1], EvSendRaised(ev'[1].call, "WebSocketError", FALSE)>>
          /\ sending' = NoSend]_vars

\* the transport's send ends in exactly one of two ways: the text went out and
\* the call returned, or the call raised WebSocketError
TransportFailureIsRaised ==
    [][(sending # NoSend /\ sending' = NoSend) =>
          \/ ev' = <<EvTransmit(sending.conn, sending.text), EvSendReturned(sending.call)>>
          \/ ev' = <<EvSendRaised(sending.call, "WebSocketError", TRUE)>>]_vars

\* a send call that raised left the stream as it was
FailedSendChangesNothing ==
    [][(\E i \in 1..Len(ev') : ev'[i].op = "send_raised") =>
          /\ connected' = connected
          /\ websocket' = websocket
          /\ eventHandlers' = eventHandlers
          /\ listenTask' = listenTask
          /\ conns' = conns]_vars

\* C21: a send on a stream that is not connected raises WebSocketError and
\* transmits nothing; on a connected stream a failure of the transport's send
\* is raised to the caller as WebSocketError; a failed send changes neither the
\* connection state nor the subscription map.
SendFailsLoudly ==
    /\ RefusedWhenNotConnected
    /\ TransportFailureIsRaised
    /\ FailedSendChangesNothing

\* the transport failed under a send on a connected stream with an open
\* connection and registered handlers
TransportFailedWitness ==
    /\ ev # <<>>
    /\ ev[1].op = "send_raised"
    /\ ev[1].sent
    /\ connected
    /\ websocket # 0
    /\ conns[websocket] = "open"
    /\ eventHandlers # NoHandlers

\* the message each helper is to transmit, spelled out per agent id
ExpectedRoom == [a1 |-> "agent:a1", a2 |-> "agent:a2"]
ExpectedShape(op, id) ==
    CASE op = "join_agent_room" -> [action |-> "join", room |-> ExpectedRoom[id]]
      [] op = "leave_agent_room" -> [action |-> "leave", room |-> ExpectedRoom[id]]
      [] op = "subscribe_to_verifications" ->
            [action |-> "subscribe",
             events |-> <<"verification_submitted", "verification_approved",
                          "verification_rejected">>,
             agentId |-> id]
      [] op = "subscribe_to_escrows" ->
            [action |-> "subscribe",
             events |-> <<"escrow_created", "escrow_completed", "escrow_disputed">>,
             agentId |-> id]

\* a helper called on a connected stream hands the transport the text of
\* exactly its message, for the connection of the stream
HelperHandsOverShape ==
    [][(SendCalled /\ ev'[1].call \in Helpers /\ connected /\ websocket # 0) =>
          /\ sending' = [pc |-> "inSend", call |-> ev'[1].call,
                         text |-> [kind |-> "object",
                                   value |-> ExpectedShape(ev'[1].call, ev'[1].arg)],
                         conn |-> websocket]
          /\ ev' = <<ev'[1]>>]_vars

\* what goes out is the text handed over, once: the call is over with it
TransmitsOnce ==
    [][(\E i \in 1..Len(ev') : ev'[i].op = "transmit") =>
          /\ sending # NoSend
          /\ sending' = NoSend
          /\ ev' = <<EvTransmit(sending.conn, sending.text), EvSendReturned(sending.call)>>]_vars

\* no step of a send call changes the state of the stream
SendKeepsState ==
    [][(SendCalled \/ sending' # sending) =>
          UNCHANGED <<connected, websocket, eventHandlers, listenTask, listeners,
                      conns, streamPc>>]_vars

\* C23: each helper is one send of a fixed message shape and changes no state of
\* the stream: join_agent_room(id) transmits {action: join, room: agent:<id>},
\* subscribe_to_verifications(id) and subscribe_to_escrows(id) transmit
\* {action: subscribe, events: [their three event names], agentId: <id>}.
HelperIsOneFixedSend ==
    /\ HelperHandsOverShape
    /\ TransmitsOnce
    /\ SendKeepsState

\* subscribe_to_escrows("a2") went out
EscrowSubscriptionSentWitness ==
    /\ Len(ev) = 2
    /\ ev[1].op = "transmit"
    /\ ev[1].text.value =
          [action |-> "subscribe",
           events |-> <<"escrow_created", "escrow_completed", "escrow_disputed">>,
           agentId |-> "a2"]
    /\ ev[2] = EvSendReturned("subscribe_to_escrows")

---------------------------------------------------------------------------
(* The subscription map *)

\* the handlers registered for an event name, in registration order
HandlersOf(hs, e) == IF e \in DOMAIN hs THEN hs[e] ELSE <<>>

\* two handler objects that compare equal: one object, or the two bound-method
\* objects of the same method
ComparesEqual(a, b) == a = b \/ {a, b} = {"h1", "h1b"}

\* the step is the call off(e, h), h = None for the call without a handler
OffCalled(e, h) == ev' = <<EvOff(e, h)>>
OnCalled(e, h) == ev' = <<EvOn(e, h)>>

\* a call of on() or off() leaves the connection state alone
KeepsConnection == UNCHANGED <<connected, websocket, listenTask, conns, streamPc>>

\* off(e, h) leaves of event e what `kept` keeps, in the order it had, and
\* leaves every other event name and the connection state as they were
OffRemoves(e, h, kept(_)) ==
    /\ HandlersOf(eventHandlers', e) =
          IF h = None THEN <<>> ELSE SelectSeq(HandlersOf(eventHandlers, e), kept)
    /\ \A o \in EventNames \ {e} :
          HandlersOf(eventHandlers', o) = HandlersOf(eventHandlers, o)
    /\ KeepsConnection

\* on(e, h) adds h at the end of the handlers of e and nothing else
OnAppends(e, h) ==
    /\ HandlersOf(eventHandlers', e) = Append(HandlersOf(eventHandlers, e), h)
    /\ \A o \in EventNames \ {e} :
          HandlersOf(eventHandlers', o) = HandlersOf(eventHandlers, o)
    /\ KeepsConnection

\* off() may be called in every state, on() in every state the bound on the
\* registrations leaves room in
AlwaysPermitted ==
    /\ \A e \in EventNames, h \in BoundHandlers \cup {None} : ENABLED Off(e, h)
    /\ TotalHandlers(eventHandlers, DOMAIN eventHandlers) < MaxHandlers =>
          \A e \in EventNames, h \in BoundHandlers : ENABLED On(e, h)

---------------------------------------------------------------------------
(* The validator *)

\* the step validated `input`: its events are the call, the rule calls, the result
ValidatedOne == ev # <<>> /\ ev[1].op = "validate"
ValidatedMany == ev # <<>> /\ ev[1].op = "validate_many"

\* the rule returns a valid result for the input
RulePasses(rule, input) ==
    rule.func[input].kind = "result" /\ rule.func[input].valid

\* the errors of the rules from position i on, in rule order
RECURSIVE ErrorsFrom(_, _)
ErrorsFrom(i, input) ==
    IF i > Len(rules) THEN <<>>
    ELSE LET out == rules[i].func[input]
             own == CASE out.kind = "raise" -> <<"rule '" \o rules[i].name \o "': boom">>
                      [] out.kind = "result" /\ out.valid -> <<>>
                      [] OTHER -> out.errors \o
                                     (IF out.reason = None THEN <<>> ELSE <<out.reason>>)
         IN  own \o ErrorsFrom(i + 1, input)

\* validate is valid exactly when every rule passes; every rule is called, in
\* registration order, once; the errors are those of the rules in rule order
ValidateIsConjunction ==
    ValidatedOne =>
        LET input == ev[1].input
            res == ev[Len(ev)].result
        IN  /\ Len(ev) = Len(rules) + 2
            /\ ev[Len(ev)].op = "validated"
            /\ \A i \in 1..Len(rules) :
                  /\ ev[i + 1].op = "rule"
                  /\ ev[i + 1].pos = i
                  /\ ev[i + 1].name = rules[i].name
                  /\ ev[i + 1].input = input
                  /\ ev[i + 1].out = rules[i].func[input].kind
            /\ res.valid = (\A i \in 1..Len(rules) : RulePasses(rules[i], input))
            /\ res.errors = ErrorsFrom(1, input)

\* validate_many gives one result per input, in input order, each the result
\* of validate for that input
ValidateManyIsMap ==
    ValidatedMany =>
        LET inputs == ev[1].inputs
            results == ev[Len(ev)].results
        IN  /\ ev[Len(ev)].op = "validated_many"
            /\ Len(results) = Len(inputs)
            /\ Len(ev) = Len(inputs) * Len(rules) + 2
            /\ \A k \in 1..Len(inputs) :
                  /\ results[k] = ValidateResult(rules, inputs[k]).result
                  /\ results[k].valid =
                        (\A i \in 1..Len(rules) : RulePasses(rules[i], inputs[k]))
                  /\ results[k].errors = ErrorsFrom(1, inputs[k])

\* C24: validate returns valid = true exactly when every registered rule
\* returns valid for the input (true with no rule); every rule is evaluated in
\* registration order also after a rule failed or raised, a raising rule counts
\* as a failure, the errors are collected in rule order; validate_many returns
\* one result per input, in input order, equal to validate of that input.
ValidateRunsEveryRule ==
    /\ ValidateIsConjunction
    /\ ValidateManyIsMap

\* a validate whose first rule raised and whose second rule failed with errors
RaisedThenFailedWitness ==
    /\ ValidatedOne
    /\ Len(rules) >= 2
    /\ ev[2].out = "raise"
    /\ ev[3].out = "result"
    /\ ~ev[Len(ev)].result.valid
    /\ Len(ev[Len(ev)].result.errors) = 3

---------------------------------------------------------------------------
(* The HTTP response handler *)

\* the step handled a response: ev is the call and its outcome
Handled == ev # <<>> /\ ev[1].op = "handle_response"

\* C25: the response handler maps every status to exactly one outcome: 401
\* raises AuthenticationError, 404 raises APIError with status 404, another
\* status >= 400 raises APIError with that status, and a status below 400
\* returns the decoded body without raising.
StatusDecidesOutcome ==
    Handled =>
        LET resp == ev[1].response
            out == ev[2]
        IN  /\ resp.status = 401 =>
                  out.kind = "raise" /\ out.error = "AuthenticationError"
            /\ resp.status = 404 =>
                  out.kind = "raise" /\ out.error = "APIError" /\ out.status_code = 404
            /\ (resp.status >= 400 /\ resp.status \notin {401, 404}) =>
                  out.kind = "raise" /\ out.error = "APIError"
                      /\ out.status_code = resp.status
            /\ resp.status < 400 => out.kind = "return"

---------------------------------------------------------------------------
(* A runner shared by two callers *)

\* C26: in every reachable state of a runner, under any interleaving of start()
\* and stop() calls of coroutines of one event loop and any callback or Gateway
\* outcome, a runner whose running flag is set has exactly one live background
\* task, never none and never two.
RunningHasOneTask == running => Cardinality(LiveTasks) = 1

\* the step is a stop() call of caller c
StopCalled(c) == ev' # <<>> /\ ev'[1].op = "stop" /\ ev'[1].caller = c

\* caller c is suspended in stop(), waiting for a task that has not exited
StopPending(c) == callerPc[c] = "inStop" /\ tasks[awaiting[c]].pc # "done"

\* C27: when a stop() is called while another stop() is suspended waiting for
\* the background task, neither call returns before that task has exited: the
\* second call suspends too, and a suspended call resumes on a finished task.
OverlappingStopsBothWait ==
    [][\A c, d \in Callers :
          /\ (c # d /\ StopPending(d) /\ StopCalled(c)) =>
                /\ callerPc'[c] = "inStop"
                /\ awaiting'[c] = awaiting[d]
          /\ StopPending(c) => callerPc'[c] = "inStop"]_vars

---------------------------------------------------------------------------
(* Order of the items of one tick *)

\* the events of a step that are about one item of the fetched list
ItemEvents(e) == {k \in DOMAIN e : "idx" \in DOMAIN e[k]}

\* item i is over: its submit returned or failed
Completes(e, i) == e.op \in {"submit_ok", "submit_failed"} /\ e.idx = i

\* the task is suspended inside item i: in its callback or in its submit
InsideItem(t) == tasks[t].pc \in {"callback", "submit"}

\* the callback of the item was started, or the item went on from there
Began(e) == e.op \in {"invoke", "callback_returned", "callback_raised", "decision", "submit"}

\* the events of the last step take the items in list order; an item that was
\* begun is over (its submit returned or failed) before anything happens for a
\* later item; an item that is over is not taken up again; no item gets a
\* second callback or a second submit
StepInListOrder ==
    LET ie == ItemEvents(ev)
    IN  /\ \A k \in ie : ev[k].op = "submit" => ev[k].id = ItemId(ev[k].idx)
        /\ \A k \in ie : \A l \in {x \in ie : x > k} :
              /\ ev[k].idx <= ev[l].idx
              /\ (Began(ev[k]) /\ ev[k].idx < ev[l].idx) =>
                    \E c \in (k + 1)..(l - 1) : Completes(ev[c], ev[k].idx)
              /\ Completes(ev[k], ev[k].idx) => ev[k].idx < ev[l].idx
              /\ (ev[k].op = ev[l].op /\ ev[k].op \in {"invoke", "submit"}) =>
                    ev[k].idx < ev[l].idx
              /\ (ev[k].op \in {"callback_returned", "callback_raised"}
                      /\ ev[l].op = "invoke") => ev[k].idx < ev[l].idx

\* a step of a task that is suspended inside item i either ends the task or
\* begins with the completion of what item i was waiting for
ResumesSameItem(t) ==
    InsideItem(t) =>
        \/ ev'[1].op = "exit"
        \/ /\ ev'[1].idx = tasks[t].idx
           /\ ev'[1].op \in (IF tasks[t].pc = "callback"
                              THEN {"callback_returned", "callback_raised"}
                              ELSE {"submit_ok", "submit_failed"})

\* C28: within one tick the runner takes the fetched items strictly in the order
\* of the list: callback and submit of item i are over (returned or failed)
\* before the callback of item i+1 starts, so the submit calls of a tick follow
\* the order of the fetched list.
ItemsInFetchOrder ==
    /\ []StepInListOrder
    /\ [][\A t \in TaskIds : Stepped(t) => ResumesSameItem(t)]_vars

\* the submit of item 1 returned and the callback of item 2 was started
SecondItemAfterFirstWitness ==
    /\ Len(ev) >= 3
    /\ ev[1].op = "submit_ok"
    /\ ev[1].idx = 1
    /\ ev[Len(ev)].op = "invoke"
    /\ ev[Len(ev)].idx = 2

---------------------------------------------------------------------------
(* Stop between the items of a tick *)

\* the events that take an item up or act for it
ActsForItem(e) == e.op \in {"item", "skip", "invoke", "decision", "submit"}

\* a step of a task whose runner was stopped acts for no item but the one the
\* task is suspended in: the items not yet started are abandoned
AbandonsLaterItems(t) ==
    ~running =>
        \A k \in ItemEvents(ev') :
            ActsForItem(ev'[k]) =>
                /\ InsideItem(t)
                /\ ev'[k].idx = tasks[t].idx
                /\ ev'[k].op \in {"decision", "submit"}

\* C29: when a stop is requested after a fetch began and before the runner
\* starts item k of the fetched list, items k and later of that tick are
\* abandoned: no callback is invoked and no submit is made for them.
StopAbandonsRest ==
    [][\A t \in TaskIds : Stepped(t) => AbandonsLaterItems(t)]_vars

\* the task finished the item it was in when the stop came and left the loop
\* at the next item of the list
BrokeAtNextItemWitness ==
    /\ ~running
    /\ \E k \in DOMAIN ev :
          /\ ev[k].op = "break"
          /\ ev[k].idx = 2
          /\ \E c \in 1..(k - 1) : ev[c].op = "submit" /\ ev[c].idx = 1

---------------------------------------------------------------------------
(* Registry calls while an item is in progress *)

RegistryCall == Len(ev') = 1 /\ ev'[1].op \in {"register", "unregister"}

\* the task resumes from the callback of item i: the callback that reports is
\* the one that was invoked, the decision is what it returned (or the degraded
\* decision when it raised) and that decision is what the submit carries
DecidesWithInvokedCallback(t) ==
    (tasks[t].pc = "callback" /\ ev'[1].op # "exit") =>
        /\ ev'[1].op \in {"callback_returned", "callback_raised"}
        /\ ev'[1].idx = tasks[t].idx
        /\ ev'[1].cb = tasks[t].cb
        /\ Len(ev') >= 3
        /\ ev'[2].op = "decision"
        /\ ev'[2].idx = tasks[t].idx
        /\ ev'[2].kind = (IF ev'[1].op = "callback_returned" THEN "callback" ELSE "degraded")
        /\ ev'[1].op = "callback_returned" => ev'[2].res = ev'[1].res
        /\ ev'[3].op = "submit"
        /\ ev'[3].idx = tasks[t].idx
        /\ ev'[3].data = SubmitData(ev'[2].res)
        /\ \A k \in 4..Len(ev') :
              ("idx" \in DOMAIN ev'[k] /\ ev'[k].idx = tasks[t].idx)
                 => ev'[k].op = "submit_failed"

\* the task resumes from the submit of item i: nothing is decided or submitted
\* for item i again
SubmitsOnce(t) ==
    tasks[t].pc = "submit" =>
        \A k \in ItemEvents(ev') :
            ev'[k].idx = tasks[t].idx => ev'[k].op \in {"submit_ok", "submit_failed"}

\* an item taken up in this step goes to the callback its skill has in the
\* registry now, and to the default decision when it has none
ResolvesWithRegistryNow ==
    \A k \in DOMAIN ev' :
        ev'[k].op = "item" =>
            /\ k < Len(ev')
            /\ IF callbacks[ev'[k].skill] = None
               THEN ev'[k + 1] = EvDecision(ev'[k].task, ev'[k].idx, "default", DefaultDecision)
               ELSE ev'[k + 1] = EvInvoke(ev'[k].task, ev'[k].idx, callbacks[ev'[k].skill])

\* C30: a register_callback or unregister_callback call made while the runner
\* is suspended inside item i (in its callback or its submit) leaves the
\* callback invoked for item i and the payload of its submit alone, so the
\* decision submitted for item i is the one of the callback that was invoked;
\* every item taken up afterwards, in the same tick or a later one, is resolved
\* with the registry as that call left it.
RegistryCallSparesItemInProgress ==
    [][IF Len(ev') > 0 /\ "task" \in DOMAIN ev'[1]
       THEN /\ DecidesWithInvokedCallback(ev'[1].task)
            /\ SubmitsOnce(ev'[1].task)
            /\ ResolvesWithRegistryNow
       ELSE RegistryCall => UNCHANGED <<tasks, running, taskRef>>]_vars

\* cb1 returned the decision of item 1 with no callback left in the registry,
\* and in the same step item 2 got the default decision: the callback was
\* unregistered while it ran
UnregisteredWhileRunningWitness ==
    /\ Len(ev) > 0
    /\ ev[1].op = "callback_returned"
    /\ ev[1].idx = 1
    /\ ev[1].cb = "cb1"
    /\ ev[2].kind = "callback"
    /\ \A key \in AllKeys : callbacks[key] = None
    /\ \E k \in DOMAIN ev :
          /\ ev[k].op = "item"
          /\ ev[k].idx = 2
          /\ ev[k + 1].op = "decision"
          /\ ev[k + 1].kind = "default"

---------------------------------------------------------------------------
(* The approver's submit: approve or reject, once per decided item *)

\* the call the approver makes for a decision: approve(id) carries the status
\* alone, reject(id, reason) the decision's reason, the fixed text if it is empty
IsApproverCall(data, res) ==
    IF res.valid
    THEN data = [status |-> "approved"]
    ELSE /\ data.status = "rejected"
         /\ data.rejectionReason # <<>>
         /\ res.reason # <<>> => data.rejectionReason = res.reason
         /\ res.reason = <<>> => data.rejectionReason = <<"ValidationFailed">>

\* every decision of the step is followed at once by its one submit call, under
\* the item's id, and a submit call of the step follows a decision of its item
OneCallPerDecision ==
    \A k \in DOMAIN ev :
        /\ ev[k].op = "decision" =>
              /\ k < Len(ev)
              /\ ev[k + 1].op = "submit"
              /\ ev[k + 1].idx = ev[k].idx
              /\ ev[k + 1].id = ItemId(ev[k].idx)
              /\ IsApproverCall(ev[k + 1].data, ev[k].res)
        /\ ev[k].op = "submit" =>
              /\ k > 1
              /\ ev[k - 1].op = "decision"
              /\ ev[k - 1].idx = ev[k].idx
              /\ \A j \in DOMAIN ev :
                    (ev[j].op = "submit" /\ ev[j].idx = ev[k].idx) => j = k

\* a validation callback that raised: the decision is not valid and its reason
\* carries the error text, the call is a reject with that reason, and the task
\* is suspended in that call with the list kept, or has gone on with the list
RaisedIsRejected ==
    \A k \in DOMAIN ev :
        ev[k].op = "callback_raised" =>
            /\ k + 2 <= Len(ev)
            /\ ev[k + 1].op = "decision"
            /\ ev[k + 1].res.valid = FALSE
            /\ Contains(ev[k + 1].res.reason, ev[k].msg)
            /\ ev[k + 2].data.status = "rejected"
            /\ Contains(ev[k + 2].data.rejectionReason, ev[k].msg)
            /\ tasks[ev[k].task].pc # "done"
            /\ IF ev[k + 2].sent
               THEN /\ tasks[ev[k].task].pc = "submit"
                    /\ tasks[ev[k].task].idx = ev[k].idx
               ELSE /\ k + 3 <= Len(ev)
                    /\ ev[k + 3].op = "submit_failed"
                    /\ GoesOnAfter(k + 3, ev[k].task, ev[k].idx, ev[k + 3].of)

ApproverSubmits == role = "approver" => OneCallPerDecision /\ RaisedIsRejected

\* the task resumes from the approve or reject call of item i: no second call
\* for item i, and the next item of the list is taken up unless a stop came
GoesOnAfterCall(t) ==
    (role = "approver" /\ tasks[t].pc = "submit" /\ ~StopRequested(t)) =>
        /\ Completes(ev'[1], tasks[t].idx)
        /\ \A k \in 2..Len(ev') :
              "idx" \in DOMAIN ev'[k] => ev'[k].idx > tasks[t].idx
        /\ IF tasks[t].idx < Len(tasks[t].items)
           THEN ev'[2].op \in {"item", "skip"} /\ ev'[2].idx = tasks[t].idx + 1
           ELSE ev'[2] = EvSleep(t)

\* C31: for every item the approver reaches a validation decision for, it makes
\* exactly one submit call: approve(id) when the decision is valid, otherwise
\* reject(id, reason) with the decision's reason, the fixed text if the reason
\* is empty; a callback that raises yields a decision that is not valid and
\* carries the error text, hence a reject, and the loop goes on with the
\* sibling items.
ApproverSubmitsOncePerItem ==
    /\ []ApproverSubmits
    /\ [][IF Len(ev') > 0 /\ "task" \in DOMAIN ev'[1]
          THEN GoesOnAfterCall(ev'[1].task)
          ELSE TRUE]_vars

\* the validation callback of item 1 raised, the approver called reject with
\* the error text, and the same step took up item 2
RejectThenSiblingWitness ==
    /\ role = "approver"
    /\ Len(ev) >= 5
    /\ ev[1].op = "callback_raised"
    /\ ev[1].idx = 1
    /\ ev[3].op = "submit"
    /\ ev[3].data.status = "rejected"
    /\ ev[5].op = "item"
    /\ ev[5].idx = 2

---------------------------------------------------------------------------
(* A connect() whose handshake fails *)

ConnectFailedNow == ev = <<EvConnectFailed("WebSocketError")>>

\* after the failed call: Disconnected, no transport handle, no loop task that
\* is not over, the caller is free again and a new connect() is possible
DisconnectedAfterFailure ==
    ConnectFailedNow =>
        /\ ~connected
        /\ websocket = 0
        /\ streamPc = "idle"
        /\ \A l \in ConnIds : listeners[l].pc \in {"none", "done"}
        /\ NextConn <= MaxConns => ENABLED Connect

\* the failing return changes nothing of the stream, and the call up to the
\* handshake changes nothing either
FailureChangesNothing ==
    /\ ev' = <<EvConnectFailed("WebSocketError")>>
          => /\ streamPc = "inConnect"
             /\ UNCHANGED <<connected, websocket, eventHandlers, listenTask, listeners, conns>>
    /\ ev' = <<EvConnect("handshake")>>
          => UNCHANGED <<connected, websocket, eventHandlers, listenTask, listeners, conns>>

\* a connect() after a failed one: the handshake may succeed, and then the
\* stream is Connected on the new connection with its loop task created
LaterConnectSucceeds ==
    (streamPc = "inConnect" /\ ev' = <<EvConnected(NextConn)>>)
        => /\ connected'
           /\ websocket' = NextConn
           /\ listenTask' = NextConn
           /\ listeners'[NextConn].pc = "new"

\* C32: when the handshake of connect() fails, the call raises WebSocketError
\* and the stream is as it was before the call: not connected, no transport
\* handle, no loop task created, the subscription map untouched; a later
\* connect() is possible and connects.
FailedConnectLeavesStreamAsItWas ==
    /\ []DisconnectedAfterFailure
    /\ [][FailureChangesNothing /\ LaterConnectSucceeds]_vars

\* a handshake failed on a stream that has handlers registered and had a
\* connection before, and another connection may still be opened
ConnectFailedWitness ==
    /\ ConnectFailedNow
    /\ eventHandlers # NoHandlers
    /\ conns[1] = "closed"
    /\ NextConn <= MaxConns

---------------------------------------------------------------------------
(* on() / off() during a dispatch *)

\* C33: on()/off() calls made while the dispatcher is suspended inside a
\* handler of frame F do not change which handlers run for F: the list the
\* dispatch of F goes through stays the one registered when the dispatch
\* began, so a handler added meanwhile is first invoked for a later frame.
DispatchIsIsolated ==
    [][\A l \in ConnIds :
          (listeners[l].pc = "handler" /\ ~LoopStepped(l))
              => listeners'[l].hl = listeners[l].hl]_vars

---------------------------------------------------------------------------
(* disconnect() during a handler *)

\* C34: a handler that is executing when disconnect() is called runs to
\* completion: the loop task never ends by a cancellation delivered while it
\* is suspended inside a handler.
HandlerRunsToCompletion ==
    \A k \in DOMAIN ev :
        (ev[k].op = "loop_exit" /\ ev[k].at = "handler") => ev[k].why # "cancelled"

---------------------------------------------------------------------------
(* Receive errors and the end of the loop *)

\* a receive error other than the closed-connection signal is logged and the
\* loop goes back to its while condition: it receives again while connected
ReceiveErrorIsSwallowed ==
    \A k \in DOMAIN ev :
        (ev[k].op = "recv_error" /\ connected) =>
            /\ k < Len(ev)
            /\ ev[k + 1] = EvRecv(ev[k].loop, websocket)
            /\ listeners[ev[k].loop].pc = "recv"

\* the loop task ends by the closed-connection signal or by disconnect() (its
\* cancellation, or the while condition it cleared)
EndsByCloseOrDisconnect ==
    \A k \in DOMAIN ev :
        ev[k].op = "loop_exit" => ev[k].why \in {"closed", "cancelled", "returned"}

\* C35: a receive error other than the closed-connection signal is swallowed
\* inside the receive loop and the loop keeps running; the loop terminates
\* only on a closed-connection signal or on disconnect().
LoopEndsOnlyByCloseOrDisconnect == ReceiveErrorIsSwallowed /\ EndsByCloseOrDisconnect

---------------------------------------------------------------------------
(* One frame at a time *)

\* a step of a loop task ends where it suspends: a handler invocation or a
\* recv() call is the last thing the step does, a frame is the first thing of
\* the step that reads it, and one loop task at most is under way
SuspendsAtEveryAwait ==
    /\ Cardinality(LiveListeners) <= 1
    /\ \A k \in DOMAIN ev :
          /\ ev[k].op = "handler" => k = Len(ev) /\ listeners[ev[k].loop].pc = "handler"
          /\ ev[k].op = "recv" => k = Len(ev) /\ listeners[ev[k].loop].pc = "recv"
          /\ ev[k].op = "message" => k = 1

\* a loop task suspended in handler i of a frame goes on with the end of that
\* invocation; it calls recv() again only after the last handler of the frame
\* is over, and it reads a frame only out of a recv() it was suspended in
FinishesFrameFirst(l) ==
    /\ listeners[l].pc = "handler" =>
          /\ ev'[1].op \in {"handler_done", "loop_exit"}
          /\ ev'[1].op = "handler_done" => ev'[1].pos = listeners[l].hidx
          /\ \A k \in DOMAIN ev' :
                ev'[k].op = "recv" =>
                    /\ k = 2
                    /\ ev'[1].op = "handler_done"
                    /\ ev'[1].pos = Len(listeners[l].hl)
    /\ \A k \in DOMAIN ev' : ev'[k].op = "message" => listeners[l].pc = "recv"

\* C36: inbound frames are dispatched one at a time in arrival order: every
\* handler invocation for a frame is over (returned or raised) before the loop
\* reads the next frame from the transport and before a handler of the next
\* frame starts.
FramesOneAtATime ==
    /\ []SuspendsAtEveryAwait
    /\ [][IF Len(ev') > 0 /\ "loop" \in DOMAIN ev'[1]
          THEN FinishesFrameFirst(ev'[1].loop)
          ELSE \A l \in ConnIds :
                  listeners[l].pc = "handler" => listeners'[l].pc = "handler"]_vars

\* the second of two handlers of a frame is over and the loop calls recv()
\* for the next frame
LastHandlerThenRecvWitness ==
    /\ Len(ev) = 2
    /\ ev[1].op = "handler_done"
    /\ ev[1].pos = 2
    /\ ev[2].op = "recv"

---------------------------------------------------------------------------
(* connect() after the remote side closed the connection *)

\* the loop task of the current connection ended on the closed-connection
\* signal and no disconnect() was called since
ClosedByRemote ==
    /\ websocket # 0
    /\ conns[websocket] = "remote_closed"
    /\ listeners[listenTask].pc = "done"
    /\ streamPc = "idle"

\* C37: after the receive loop exited because the remote side closed the
\* connection, a connect() without a disconnect() before it opens a new
\* transport connection (and, when the handshake succeeds, starts a new loop).
ConnectAfterRemoteCloseReconnects ==
    [][(ClosedByRemote /\ Len(ev') = 1 /\ ev'[1].op = "connect")
          => ev'[1] = EvConnect("handshake") /\ streamPc' = "inConnect"]_vars

---------------------------------------------------------------------------
(* Submit calls of a tick *)

SubmitCalls(e) == {k \in DOMAIN e : e[k].op = "submit"}

\* the submit calls of a step are for different items, each under the id of
\* its item
OneCallPerItemOfStep ==
    \A k \in SubmitCalls(ev) :
        /\ ev[k].id = ItemId(ev[k].idx)
        /\ \A j \in SubmitCalls(ev) : ev[j].idx = ev[k].idx => j = k

\* the number of items of the tick the step of task t belongs to: the length
\* of the list the fetch returns in this step, or of the list the task holds
ItemsOfTick(t) ==
    IF tasks[t].pc \in {"callback", "submit"} THEN Len(tasks[t].items)
    ELSE IF tasks[t].pc = "fetch" /\ ev'[1].op = "fetched" THEN ev'[1].count
    ELSE 0

\* the submit calls of a step are for items of the tick's fetch result that
\* had no submit call before: after the item the task was suspended in the
\* submit of, and not before the item whose callback it was suspended in
CallsWithinFetchResult(t) ==
    /\ \A k \in SubmitCalls(ev') :
          /\ ev'[k].idx \in 1..ItemsOfTick(t)
          /\ tasks[t].pc = "submit" => ev'[k].idx > tasks[t].idx
          /\ tasks[t].pc = "callback" => ev'[k].idx >= tasks[t].idx
    /\ (InsideItem(t) /\ tasks'[t].pc \in {"callback", "submit"})
          => tasks'[t].items = tasks[t].items

\* a fetch that returns items after an earlier fetch of the task returned
\* items (their ids are their positions, so the first id is returned again):
\* the first item is taken up as in any tick, whatever was submitted before
ProcessesAgain(t) ==
    (/\ tasks[t].pc = "fetch"
     /\ tasks[t].lastFetch = "items"
     /\ running
     /\ ev'[1].op = "fetched"
     /\ ev'[1].count > 0)
    => /\ Len(ev') >= 3
       /\ ev'[2].op \in {"item", "skip"}
       /\ ev'[2].idx = 1
       /\ ev'[2].op = "item" =>
             IF callbacks[ev'[2].skill] # None
             THEN ev'[3] = EvInvoke(t, 1, callbacks[ev'[2].skill])
             ELSE /\ ev'[3].op = "decision"
                  /\ Len(ev') >= 4
                  /\ ev'[4].op = "submit"
                  /\ ev'[4].id = ItemId(1)

\* C38: within one tick the runner makes at most one submit call per fetched
\* item and none for an id that is not in the tick's fetch result; it keeps no
\* memory of the ids it processed, so an item a later fetch returns again is
\* processed and submitted again.
AtMostOneSubmitPerFetchedItem ==
    /\ []OneCallPerItemOfStep
    /\ [][IF Len(ev') > 0 /\ "task" \in DOMAIN ev'[1]
          THEN CallsWithinFetchResult(ev'[1].task) /\ ProcessesAgain(ev'[1].task)
          ELSE \A t \in TaskIds : tasks'[t].items = tasks[t].items]_vars

\* a later tick of the task: the fetch before had returned items, this one
\* returned items again and the first id is submitted in the same step
SubmittedAgainWitness ==
    \E t \in TaskIds :
        /\ Len(ev) >= 4
        /\ ev[1] = EvFetched(t, Len(tasks[t].items), TRUE)
        /\ ev[4].op = "submit"
        /\ ev[4].id = ItemId(1)
        /\ tasks[t].pc = "submit"

=========================================================================
